---- MODULE Spec2Model ----
(***************************************************************************)
(* Model of native-vcp: the TagMemo streaming co-occurrence matrix         *)
(* (tagmemo.rs), alone and under threads, with its tag boost, its vector   *)
(* boost and its associations, the NPMI co-occurrence matrix and its tag   *)
(* expansion (cooccurrence.rs), the reciprocal                             *)
(* rank fusion of HybridSearchEngine (hybrid_search.rs) and the three      *)
(* phase search of WaveRAGEngine with its trace ids (waverag.rs).          *)
(*                                                                         *)
(* f64 values are modelled in fixed point: the integer x stands for the    *)
(* real x / Scale.  Three integers outside the range of every finite value *)
(* of the model stand for NaN, +inf and -inf, and the arithmetic operators *)
(* treat them as IEEE-754 does.                                            *)
(***************************************************************************)
EXTENDS Integers, Sequences, FiniteSets, TLC

\* ------------------------------------------------------------------ f64

Scale == 10 * 100
LScale == 10 * Scale
PInf == 2 * 1000000000
NInf == 0 - PInf
NaN == NInf - 1

IsNaN(x) == x = NaN
IsInf(x) == x = PInf \/ x = NInf
IsFinite(x) == ~IsNaN(x) /\ ~IsInf(x)

Abs(n) == IF n < 0 THEN 0 - n ELSE n
Sgn(n) == IF n < 0 THEN 0 - 1 ELSE IF n > 0 THEN 1 ELSE 0

\* n / d rounded to the nearest integer (d # 0)
RDiv(n, d) ==
    Sgn(n) * Sgn(d) * ((Abs(n) \div Abs(d)) + (IF 2 * (Abs(n) % Abs(d)) >= Abs(d) THEN 1 ELSE 0))

\* f64 == : NaN equals nothing
FEq(x, y) == ~IsNaN(x) /\ ~IsNaN(y) /\ x = y
FLt(x, y) == ~IsNaN(x) /\ ~IsNaN(y) /\ x < y
FLe(x, y) == ~IsNaN(x) /\ ~IsNaN(y) /\ x <= y

FNeg(x) == IF IsNaN(x) THEN NaN ELSE 0 - x

FAdd(x, y) ==
    IF IsNaN(x) \/ IsNaN(y) THEN NaN
    ELSE IF IsInf(x) THEN (IF IsInf(y) /\ y # x THEN NaN ELSE x)
    ELSE IF IsInf(y) THEN y
    ELSE x + y

FSub(x, y) == FAdd(x, FNeg(y))

FMul(x, y) ==
    IF IsNaN(x) \/ IsNaN(y) THEN NaN
    ELSE IF IsInf(x) \/ IsInf(y)
         THEN (IF x = 0 \/ y = 0 THEN NaN
               ELSE IF Sgn(x) * Sgn(y) > 0 THEN PInf ELSE NInf)
    ELSE LET ax == Abs(x)
             ay == Abs(y)
         IN  Sgn(x) * Sgn(y) * ((ax \div Scale) * ay + RDiv((ax % Scale) * ay, Scale))

FDiv(x, y) ==
    IF IsNaN(x) \/ IsNaN(y) THEN NaN
    ELSE IF IsInf(x)
         THEN (IF IsInf(y) THEN NaN
               ELSE IF Sgn(x) * (IF y < 0 THEN 0 - 1 ELSE 1) > 0 THEN PInf ELSE NInf)
    ELSE IF IsInf(y) THEN 0
    ELSE IF y = 0
         THEN (IF x = 0 THEN NaN ELSE IF x > 0 THEN PInf ELSE NInf)
    ELSE LET ax == Abs(x)
             ay == Abs(y)
         IN  Sgn(x) * Sgn(y) * ((ax \div ay) * Scale + RDiv((ax % ay) * Scale, ay))

\* f64::min: the other operand when one is NaN
FMin(x, y) == IF IsNaN(x) THEN y ELSE IF IsNaN(y) THEN x ELSE IF x < y THEN x ELSE y
FMax(x, y) == IF IsNaN(x) THEN y ELSE IF IsNaN(y) THEN x ELSE IF x > y THEN x ELSE y

\* ln 2 at LScale
Ln2L == RDiv(69315 * LScale, 100000)

\* ln of m / LScale for LScale <= m < 2 * LScale:  2 * atanh((m-1)/(m+1))
LnMantissa(m) ==
    LET z  == RDiv((m - LScale) * LScale, m + LScale)
        z2 == RDiv(z * z, LScale)
        t3 == RDiv(z * z2, LScale)
        t5 == RDiv(t3 * z2, LScale)
        t7 == RDiv(t5 * z2, LScale)
        t9 == RDiv(t7 * z2, LScale)
    IN  2 * (z + RDiv(t3, 3) + RDiv(t5, 5) + RDiv(t7, 7) + RDiv(t9, 9))

\* ln of m / LScale at LScale, m > 0
RECURSIVE LnL(_)
LnL(m) ==
    IF m >= 2 * LScale THEN Ln2L + LnL(RDiv(m, 2))
    ELSE IF m < LScale THEN LnL(2 * m) - Ln2L
    ELSE LnMantissa(m)

\* f64::ln
FLn(x) ==
    IF IsNaN(x) \/ x < 0 THEN NaN
    ELSE IF x = 0 THEN NInf
    ELSE IF x = PInf THEN PInf
    ELSE RDiv(LnL(x * (LScale \div Scale)), LScale \div Scale)

\* e^(r / LScale) at LScale for 0 <= r < Ln2L (Taylor)
ExpFrac(r) ==
    LET t2 == RDiv(r * r, 2 * LScale)
        t3 == RDiv(t2 * r, 3 * LScale)
        t4 == RDiv(t3 * r, 4 * LScale)
        t5 == RDiv(t4 * r, 5 * LScale)
        t6 == RDiv(t5 * r, 6 * LScale)
    IN  LScale + r + t2 + t3 + t4 + t5 + t6

\* e^(v / LScale) at LScale
RECURSIVE ExpL(_)
ExpL(v) ==
    IF v >= Ln2L THEN 2 * ExpL(v - Ln2L)
    ELSE IF v < 0 THEN RDiv(ExpL(v + Ln2L), 2)
    ELSE ExpFrac(v)

\* exponents outside this range overflow the model's integers: e^21 > 2^30
ExpMaxL == 13 * LScale

\* f64::exp
FExp(x) ==
    IF IsNaN(x) THEN NaN
    ELSE IF x = PInf THEN PInf
    ELSE IF x = NInf THEN 0
    ELSE LET v == x * (LScale \div Scale)
         IN  IF v > ExpMaxL THEN PInf
             ELSE IF v < 0 - ExpMaxL THEN 0
             ELSE RDiv(ExpL(v), LScale \div Scale)

IsInteger(y) == IsFinite(y) /\ y % Scale = 0
IsOddInteger(y) == IsInteger(y) /\ (y \div Scale) % 2 = 1

\* f64::powf (C pow)
FPow(x, y) ==
    IF y = 0 \/ x = Scale THEN Scale
    ELSE IF IsNaN(x) \/ IsNaN(y) THEN NaN
    ELSE IF x = 0
         THEN (IF y > 0 THEN 0 ELSE PInf)
    ELSE IF IsInf(y)
         THEN (IF Abs(x) = Scale THEN Scale
               ELSE IF (Abs(x) > Scale) = (y = PInf) THEN PInf ELSE 0)
    ELSE IF x = PInf THEN (IF y > 0 THEN PInf ELSE 0)
    ELSE IF x = NInf
         THEN (IF y > 0 THEN (IF IsOddInteger(y) THEN NInf ELSE PInf) ELSE 0)
    ELSE IF x < 0
         THEN (IF ~IsInteger(y) THEN NaN
               ELSE LET p == RDiv(y * LnL(Abs(x) * (LScale \div Scale)), Scale)
                        r == IF p > ExpMaxL THEN PInf
                             ELSE IF p < 0 - ExpMaxL THEN 0
                             ELSE RDiv(ExpL(p), LScale \div Scale)
                    IN  IF IsOddInteger(y) THEN FNeg(r) ELSE r)
    ELSE LET p == RDiv(y * LnL(x * (LScale \div Scale)), Scale)
         IN  IF p > ExpMaxL THEN PInf
             ELSE IF p < 0 - ExpMaxL THEN 0
             ELSE RDiv(ExpL(p), LScale \div Scale)

\* integer square root by bisection on [lo, hi)
RECURSIVE ISqrtBits(_, _, _)
ISqrtBits(n, lo, hi) ==
    IF hi - lo <= 1 THEN lo
    ELSE LET mid == (lo + hi) \div 2
         IN  IF mid * mid <= n THEN ISqrtBits(n, mid, hi) ELSE ISqrtBits(n, lo, mid)

\* f64::sqrt
FSqrt(x) ==
    IF IsNaN(x) \/ x < 0 THEN NaN
    ELSE IF x = PInf THEN PInf
    ELSE ISqrtBits(x * Scale, 0, 46340)

\* ------------------------------------------------------- Option, HashMap

None == [some |-> FALSE]
Some(x) == [some |-> TRUE, v |-> x]
UnwrapOr(o, d) == IF o.some THEN o.v ELSE d

EmptyMap == [k \in {} |-> 0]
Has(m, k) == k \in DOMAIN m
MapGet(m, k, d) == IF k \in DOMAIN m THEN m[k] ELSE d
MapPut(m, k, v) == [x \in (DOMAIN m) \cup {k} |-> IF x = k THEN v ELSE m[x]]

Range(s) == {s[i] : i \in DOMAIN s}
\* the sequences that list the set S once each, in every order
RECURSIVE Perms(_)
Perms(S) ==
    IF S = {} THEN {<<>>}
    ELSE UNION {{<<x>> \o p : p \in Perms(S \ {x})} : x \in S}
\* the sequences over S of length at most n
SeqsUpTo(S, n) == UNION {[1..k -> S] : k \in 0..n}

\* ------------------------------------------------------------- bounds

\* mutating calls per behaviour
MaxOps == 2
\* length of a batch_update list
MaxBatch == 2

\* ------------------------------------------------------------- inputs

Tags == {"a", "A", "b"}
\* str::to_lowercase on the tags of the model
ToLowercase(t) == IF t = "A" THEN "a" ELSE t

\* weight arguments: None (1.0), -2.0 and f64::INFINITY
WeightArgs == {None, Some(0 - 2 * Scale), Some(PInf)}
\* constructor arguments (alpha, beta)
NewArgs == {<<None, None>>, <<Some(Scale), Some(Scale \div 2)>>}
ThresholdArgs == {Scale \div 2}
TagPairUpdates == [tag1 : Tags, tag2 : Tags, weight : WeightArgs]

\* -------------------------------------------------------------- state

VARIABLES
    inner,   \* TagMatrixInner behind the RwLock of one TagCooccurrenceMatrix
    nOps,    \* number of mutating calls made so far
    last,    \* the last call: its name, its arguments and what it returned
    lock,    \* the RwLock around inner: the writer and the readers that hold it
    pc,      \* the position of each thread inside the call it is making
    frame,   \* the local variables of the call each thread is making
    cm,      \* the fields of one CooccurrenceMatrix
    hybrid,  \* the fields of one HybridSearchEngine
    engines, \* the WaveRAGEngine objects of the process, by name
    issued   \* the trace ids that search calls were given, in the order given

vars == <<inner, nOps, last, lock, pc, frame, cm, hybrid, engines, issued>>
waveVars == <<hybrid, engines, issued>>
\* the variables of the threads
threadVars == <<lock, pc, frame>>

Threads == {"t1", "t2"}
NoThread == "none"
\* the RwLock with no holder
Unlocked == [writer |-> NoThread, readers |-> {}]
\* no thread inside a call
AllIdle == [t \in Threads |-> "idle"]
NoFrames == [t \in Threads |-> [op |-> "none"]]

\* CooccurrenceMatrix::new
NewCooccurrenceMatrix ==
    [tags |-> <<>>,
     tag_index |-> EmptyMap,
     weights |-> EmptyMap,
     tag_freq |-> EmptyMap,
     total_docs |-> 0]

\* one thread calls the TagMemo matrix, and no CooccurrenceMatrix call is made
SingleThreaded ==
    /\ lock = Unlocked
    /\ pc = AllIdle
    /\ frame = NoFrames
    /\ cm = NewCooccurrenceMatrix

\* ------------------------------------------------------------ TagMemo

DefaultAlpha == 800
DefaultBeta == 200
DefaultWeight == 1000

\* TagCooccurrenceMatrix::new
New(alpha, beta) ==
    [alpha |-> UnwrapOr(alpha, DefaultAlpha),
     beta |-> UnwrapOr(beta, DefaultBeta),
     cooccurrence |-> EmptyMap,
     frequencies |-> EmptyMap,
     total_count |-> 0,
     min_pmi_threshold |-> 0]

\* inner.cooccurrence.entry(t1).or_insert_with(HashMap::new).entry(t2).or_insert(0.0),
\* then *count = *count * beta + weight * alpha
DecayEntry(cooc, t1, t2, weight, alpha, beta) ==
    LET row   == MapGet(cooc, t1, EmptyMap)
        count == MapGet(row, t2, 0)
    IN  MapPut(cooc, t1, MapPut(row, t2, FAdd(FMul(count, beta), FMul(weight, alpha))))

\* the frequency overwritten instead of incremented
SetFrequency(freq, t, weight) == MapPut(freq, t, weight)

\* *inner.frequencies.entry(t).or_insert(0.0) += weight
AddFrequency(freq, t, weight) == MapPut(freq, t, FAdd(MapGet(freq, t, 0), weight))

\* update without its second, symmetric half
UpdateOneSided(in, tag1, tag2, weightArg) ==
    LET weight == UnwrapOr(weightArg, DefaultWeight)
        c1     == DecayEntry(in.cooccurrence, tag1, tag2, weight, in.alpha, in.beta)
        f1     == AddFrequency(in.frequencies, tag1, weight)
        f2     == AddFrequency(f1, tag2, weight)
    IN  [in EXCEPT !.cooccurrence = c1,
                   !.frequencies = f2,
                   !.total_count = FAdd(in.total_count, FMul(weight, 2 * Scale))]

\* TagCooccurrenceMatrix::update, under one write lock
Update(in, tag1, tag2, weightArg) ==
    LET weight == UnwrapOr(weightArg, DefaultWeight)
        alpha  == in.alpha
        beta   == in.beta
        c1     == DecayEntry(in.cooccurrence, tag1, tag2, weight, alpha, beta)
        c2     == DecayEntry(c1, tag2, tag1, weight, alpha, beta)
        f1     == AddFrequency(in.frequencies, tag1, weight)
        f2     == AddFrequency(f1, tag2, weight)
    IN  [in EXCEPT !.cooccurrence = c2,
                   !.frequencies = f2,
                   !.total_count = FAdd(in.total_count, FMul(weight, 2 * Scale))]

\* the loop of TagCooccurrenceMatrix::batch_update from position i on; alpha
\* and beta are read once, before the loop
RECURSIVE BatchLoop(_, _, _, _, _)
BatchLoop(in, updates, i, alpha, beta) ==
    IF i > Len(updates) THEN in
    ELSE LET update == updates[i]
             weight == UnwrapOr(update.weight, DefaultWeight)
             row1   == MapGet(in.cooccurrence, update.tag1, EmptyMap)
             cnt1   == FAdd(FMul(MapGet(row1, update.tag2, 0), beta), FMul(weight, alpha))
             c1     == MapPut(in.cooccurrence, update.tag1, MapPut(row1, update.tag2, cnt1))
             row2   == MapGet(c1, update.tag2, EmptyMap)
             cnt2   == FAdd(FMul(MapGet(row2, update.tag1, 0), beta), FMul(weight, alpha))
             c2     == MapPut(c1, update.tag2, MapPut(row2, update.tag1, cnt2))
             f1     == MapPut(in.frequencies, update.tag1,
                              FAdd(MapGet(in.frequencies, update.tag1, 0), weight))
             f2     == MapPut(f1, update.tag2, FAdd(MapGet(f1, update.tag2, 0), weight))
             next   == [in EXCEPT !.cooccurrence = c2,
                                  !.frequencies = f2,
                                  !.total_count = FAdd(in.total_count, FMul(weight, 2 * Scale))]
         IN  BatchLoop(next, updates, i + 1, alpha, beta)

\* batch_update that takes the list from its end
BatchUpdateReversed(in, updates) ==
    BatchLoop(in, [i \in 1..Len(updates) |-> updates[Len(updates) + 1 - i]], 1,
              in.alpha, in.beta)

\* TagCooccurrenceMatrix::batch_update, under one write lock
BatchUpdate(in, updates) == BatchLoop(in, updates, 1, in.alpha, in.beta)

\* TagCooccurrenceMatrix::compute_pmi
ComputePmi(in, tag1, tag2) ==
    IF FEq(in.total_count, 0) THEN 0
    ELSE LET freq1 == MapGet(in.frequencies, tag1, 0)
             freq2 == MapGet(in.frequencies, tag2, 0)
         IN  IF FEq(freq1, 0) \/ FEq(freq2, 0) THEN 0
             ELSE LET cooc == MapGet(MapGet(in.cooccurrence, tag1, EmptyMap), tag2, 0)
                  IN  IF FEq(cooc, 0) THEN 0
                      ELSE LET p_ab == FDiv(cooc, in.total_count)
                               p_a  == FDiv(freq1, in.total_count)
                               p_b  == FDiv(freq2, in.total_count)
                           IN  FLn(FDiv(p_ab, FMul(p_a, p_b)))

\* TagCooccurrenceMatrix::set_min_pmi_threshold
SetMinPmiThreshold(in, threshold) == [in EXCEPT !.min_pmi_threshold = threshold]

\* clear that leaves total_count as it is
ClearKeepingTotal(in) == [in EXCEPT !.cooccurrence = EmptyMap, !.frequencies = EmptyMap]

\* TagCooccurrenceMatrix::clear
Clear(in) == [in EXCEPT !.cooccurrence = EmptyMap,
                        !.frequencies = EmptyMap,
                        !.total_count = 0]

\* ---------------------------------------------------------- tag boost

DefaultAlphaMin == 1500
DefaultAlphaMax == 3500
DefaultBetaBase == 2000
DefaultMaxBoostRatio == 300

\* iter().sum::<f64>() over s[i..]
RECURSIVE SumFrom(_, _)
SumFrom(s, i) == IF i > Len(s) THEN 0 ELSE FAdd(s[i], SumFrom(s, i + 1))

\* the keys of a HashMap in the order an iteration yields them; ord lists
\* every tag once and stands for the hashing of the run
IterOrder(m, ord) == SelectSeq(ord, LAMBDA t : t \in DOMAIN m)

\* content_tags.iter().map(|t| t.to_lowercase()).collect()
ContentTagsLower(content_tags) == {ToLowercase(content_tags[i]) : i \in DOMAIN content_tags}

\* the average of freq / total_count over the query tags
AvgScore(in, query_tags) ==
    LET tag_scores ==
            [i \in DOMAIN query_tags |->
                LET freq == MapGet(in.frequencies, query_tags[i], 0)
                IN  IF FLt(0, in.total_count) THEN FDiv(freq, in.total_count) ELSE 0]
    IN  IF Len(query_tags) = 0 THEN 0
        ELSE FDiv(SumFrom(tag_scores, 1), Len(query_tags) * Scale)

\* f64::clamp, which panics unless min <= max
ClampPanics(lo, hi) == ~FLe(lo, hi)
Clamp(x, lo, hi) == IF FLt(x, lo) THEN lo ELSE IF FLt(hi, x) THEN hi ELSE x

DynamicAlpha(alpha_min, alpha_max, avg_score) ==
    Clamp(FAdd(alpha_min, FMul(FSub(alpha_max, alpha_min), avg_score)), alpha_min, alpha_max)
DynamicBeta(beta_base, avg_score) ==
    FAdd(beta_base, FMul(FSub(Scale, avg_score), 3 * Scale))

\* inner.cooccurrence.get(tag).map(|m| m.len() as f64).unwrap_or(1.0)
GlobalFreq(in, tag) ==
    IF Has(in.cooccurrence, tag) THEN Cardinality(DOMAIN in.cooccurrence[tag]) * Scale
    ELSE Scale

\* the score of a direct match: freq^alpha / ln(global_freq + beta)
DirectScore(in, tag, dynamic_alpha, dynamic_beta) ==
    LET freq           == MapGet(in.frequencies, tag, Scale)
        logic_strength == FPow(freq, dynamic_alpha)
        noise_penalty  == FLn(FAdd(GlobalFreq(in, tag), dynamic_beta))
    IN  IF FLt(0, noise_penalty) THEN FDiv(logic_strength, noise_penalty)
        ELSE logic_strength

\* the score of an expansion match: ((cooc / 2)^alpha / ln(global_freq + beta)) / 2
ExpansionScore(in, other_tag, cooc, dynamic_alpha, dynamic_beta) ==
    LET weight         == FMul(cooc, Scale \div 2)
        logic_strength == FPow(weight, dynamic_alpha)
        noise_penalty  == FLn(FAdd(GlobalFreq(in, other_tag), dynamic_beta))
    IN  IF FLt(0, noise_penalty) THEN FMul(FDiv(logic_strength, noise_penalty), Scale \div 2)
        ELSE FMul(logic_strength, Scale \div 2)

\* the body of the first loop for a matched tag whose score is known
PushDirect(in, tag, score, acc) ==
    [acc EXCEPT
       !.matched_tags = Append(@, tag),
       !.matched_weights = Append(@, score),
       !.total_spike_score = FAdd(@, score),
       !.spike_details =
          Append(@, [tag |-> tag,
                     weight |-> MapGet(in.frequencies, tag, Scale),
                     global_freq |-> GlobalFreq(in, tag),
                     score |-> score])]

\* the first loop of compute_tag_boost from query tag i on
RECURSIVE DirectLoop(_, _, _, _, _, _)
DirectLoop(in, params, i, acc, dynamic_alpha, dynamic_beta) ==
    IF i > Len(params.query_tags) THEN acc
    ELSE IF ToLowercase(params.query_tags[i]) \in ContentTagsLower(params.content_tags)
         THEN DirectLoop(in, params, i + 1,
                         PushDirect(in, params.query_tags[i],
                                    DirectScore(in, params.query_tags[i],
                                                dynamic_alpha, dynamic_beta),
                                    acc),
                         dynamic_alpha, dynamic_beta)
         ELSE DirectLoop(in, params, i + 1, acc, dynamic_alpha, dynamic_beta)

\* the body of the second loop for an expansion tag whose score is known
PushExpansion(in, other_tag, cooc, score, acc) ==
    [acc EXCEPT
       !.expansion_tags = Append(@, other_tag),
       !.matched_weights = Append(@, score),
       !.total_spike_score = FAdd(@, score),
       !.spike_details =
          Append(@, [tag |-> other_tag,
                     weight |-> FMul(cooc, Scale \div 2),
                     global_freq |-> GlobalFreq(in, other_tag),
                     score |-> score])]

\* the inner loop of the expansion: the entries of one cooccurrence row, in
\* the order keys lists them, from position j on
RECURSIVE ExpandRow(_, _, _, _, _, _, _, _)
ExpandRow(in, params, row, keys, j, acc, dynamic_alpha, dynamic_beta) ==
    IF j > Len(keys) THEN acc
    ELSE IF /\ ToLowercase(keys[j]) \in ContentTagsLower(params.content_tags)
            /\ keys[j] \notin Range(acc.matched_tags)
            /\ keys[j] \notin Range(acc.expansion_tags)
         THEN ExpandRow(in, params, row, keys, j + 1,
                        PushExpansion(in, keys[j], row[keys[j]],
                                      ExpansionScore(in, keys[j], row[keys[j]],
                                                     dynamic_alpha, dynamic_beta),
                                      acc),
                        dynamic_alpha, dynamic_beta)
         ELSE ExpandRow(in, params, row, keys, j + 1, acc, dynamic_alpha, dynamic_beta)

\* the second loop of compute_tag_boost from query tag i on
RECURSIVE ExpansionLoop(_, _, _, _, _, _, _)
ExpansionLoop(in, params, ord, i, acc, dynamic_alpha, dynamic_beta) ==
    IF i > Len(params.query_tags) THEN acc
    ELSE IF Has(in.cooccurrence, params.query_tags[i])
         THEN ExpansionLoop(in, params, ord, i + 1,
                            ExpandRow(in, params, in.cooccurrence[params.query_tags[i]],
                                      IterOrder(in.cooccurrence[params.query_tags[i]], ord),
                                      1, acc, dynamic_alpha, dynamic_beta),
                            dynamic_alpha, dynamic_beta)
         ELSE ExpansionLoop(in, params, ord, i + 1, acc, dynamic_alpha, dynamic_beta)

\* the state of the two loops before the first: nothing matched
NoMatches ==
    [matched_tags |-> <<>>, expansion_tags |-> <<>>, matched_weights |-> <<>>,
     spike_details |-> <<>>, total_spike_score |-> 0]

\* the matches and the total spike score of both loops
Matches(in, params, ord, dynamic_alpha, dynamic_beta) ==
    ExpansionLoop(in, params, ord, 1,
                  DirectLoop(in, params, 1, NoMatches, dynamic_alpha, dynamic_beta),
                  dynamic_alpha, dynamic_beta)

\* total / (total + 2 * beta)
NormalizedSpike(total_spike_score, dynamic_beta) ==
    FDiv(total_spike_score, FAdd(total_spike_score, FMul(dynamic_beta, 2 * Scale)))

\* 1 + normalized / 2
BoostFactor(normalized_spike) == FAdd(Scale, FMul(normalized_spike, Scale \div 2))

\* the TagBoostResult compute_tag_boost returns
TagBoostResult(original_score, acc, boost_factor, dynamic_alpha, dynamic_beta) ==
    [panic |-> FALSE,
     original_score |-> original_score,
     boosted_score |-> FMin(FMul(original_score, boost_factor), Scale),
     matched_tags |-> acc.matched_tags,
     expansion_tags |-> acc.expansion_tags,
     boost_factor |-> boost_factor,
     tag_match_score |-> acc.total_spike_score,
     spike_details |-> acc.spike_details,
     dynamic_alpha |-> dynamic_alpha,
     dynamic_beta |-> dynamic_beta]

\* compute_tag_boost from the normalisation on
TagBoostOfMatches(params, acc, dynamic_alpha, dynamic_beta) ==
    TagBoostResult(UnwrapOr(params.original_score, 0), acc,
                   BoostFactor(NormalizedSpike(acc.total_spike_score, dynamic_beta)),
                   dynamic_alpha, dynamic_beta)

\* compute_tag_boost from the two loops on
TagBoostWith(in, params, ord, dynamic_alpha, dynamic_beta) ==
    TagBoostOfMatches(params, Matches(in, params, ord, dynamic_alpha, dynamic_beta),
                      dynamic_alpha, dynamic_beta)

\* compute_tag_boost from the dynamic parameters on
TagBoostAt(in, params, ord, avg_score) ==
    TagBoostWith(in, params, ord,
                 DynamicAlpha(UnwrapOr(params.alpha_min, DefaultAlphaMin),
                              UnwrapOr(params.alpha_max, DefaultAlphaMax), avg_score),
                 DynamicBeta(UnwrapOr(params.beta_base, DefaultBetaBase), avg_score))

\* TagCooccurrenceMatrix::compute_tag_boost
ComputeTagBoost(in, params, ord) ==
    IF ClampPanics(UnwrapOr(params.alpha_min, DefaultAlphaMin),
                   UnwrapOr(params.alpha_max, DefaultAlphaMax))
    THEN [panic |-> TRUE]
    ELSE TagBoostAt(in, params, ord, AvgScore(in, params.query_tags))

\* ------------------------------------------------------- vector boost

\* the position of the first matched tag that is tag_name but for its case, 0
\* when there is none
FirstNamed(all_matched, tag_name) ==
    IF \E i \in DOMAIN all_matched : ToLowercase(all_matched[i]) = ToLowercase(tag_name)
    THEN CHOOSE i \in DOMAIN all_matched :
            /\ ToLowercase(all_matched[i]) = ToLowercase(tag_name)
            /\ \A j \in 1..(i - 1) : ToLowercase(all_matched[j]) # ToLowercase(tag_name)
    ELSE 0

\* matched_weights.get(weight_idx).copied().unwrap_or(1.0)
WeightAt(matched_weights, weight_idx) ==
    IF weight_idx \in DOMAIN matched_weights THEN matched_weights[weight_idx] ELSE Scale

\* the body of the context loop for a matched tag name whose weight is known
AddContext(tag_vectors, dim, vec_start, weight, ctx) ==
    [context_vector |->
        [i \in 1..dim |->
            FAdd(ctx.context_vector[i], FMul(tag_vectors[vec_start + i], weight))],
     weight_sum |-> FAdd(ctx.weight_sum, weight),
     has_context |-> TRUE]

\* step 3 of boost_vector from tag name idx (1-based) on: the weighted sum of
\* the vectors of the matched tags
RECURSIVE ContextLoop(_, _, _, _, _, _, _)
ContextLoop(tag_vectors, tag_names, dim, all_matched, matched_weights, idx, ctx) ==
    IF idx > Len(tag_names) THEN ctx
    ELSE IF (\E k \in DOMAIN all_matched :
                ToLowercase(all_matched[k]) = ToLowercase(tag_names[idx]))
             /\ (idx - 1) * dim + dim <= Len(tag_vectors)
         THEN ContextLoop(tag_vectors, tag_names, dim, all_matched, matched_weights,
                          idx + 1,
                          AddContext(tag_vectors, dim, (idx - 1) * dim,
                                     WeightAt(matched_weights,
                                              FirstNamed(all_matched, tag_names[idx])),
                                     ctx))
         ELSE ContextLoop(tag_vectors, tag_names, dim, all_matched, matched_weights,
                          idx + 1, ctx)

\* the context before the loop: the zero vector, no weight
NoContext(dim) ==
    [context_vector |-> [i \in 1..dim |-> 0], weight_sum |-> 0, has_context |-> FALSE]

\* the division of the context vector by the weight sum
AverageContext(ctx) ==
    IF FLt(0, ctx.weight_sum)
    THEN [ctx EXCEPT !.context_vector =
             [i \in DOMAIN ctx.context_vector |->
                 FDiv(ctx.context_vector[i], ctx.weight_sum)]]
    ELSE ctx

\* step 3 of boost_vector
ContextVector(params, dim, acc) ==
    IF params.tag_vectors.some /\ params.tag_names.some
    THEN AverageContext(ContextLoop(params.tag_vectors.v, params.tag_names.v, dim,
                                    acc.matched_tags \o acc.expansion_tags,
                                    acc.matched_weights, 1, NoContext(dim)))
    ELSE NoContext(dim)

\* fused_vector.iter().map(|x| x * x).sum::<f64>().sqrt()
L2Norm(v) == FSqrt(SumFrom([i \in DOMAIN v |-> FMul(v[i], v[i])], 1))

\* the division of the vector by its norm
DivideByNorm(v, norm) ==
    IF FLt(0, norm) THEN [i \in DOMAIN v |-> FDiv(v[i], norm)] ELSE v

\* step 6 of boost_vector
L2Normalize(v) == DivideByNorm(v, L2Norm(v))

\* step 4 of boost_vector
ContextBlendRatio(ctx, normalized_spike, max_boost_ratio) ==
    IF ctx.has_context
    THEN FMin(FMul(normalized_spike, max_boost_ratio), max_boost_ratio)
    ELSE 0

\* step 5 of boost_vector
Fuse(original_vector, ctx, context_blend_ratio) ==
    IF ctx.has_context /\ FLt(0, context_blend_ratio)
    THEN [i \in DOMAIN original_vector |->
            FAdd(FMul(FSub(Scale, context_blend_ratio), original_vector[i]),
                 FMul(context_blend_ratio, ctx.context_vector[i]))]
    ELSE original_vector

\* the VectorBoostResult boost_vector returns
VectorBoostResult(fused, acc, boost_factor, context_blend_ratio, dynamic_alpha, dynamic_beta) ==
    [panic |-> FALSE,
     fused_vector |-> L2Normalize(fused),
     original_score |-> 0,
     boosted_score |-> FMin(FMul(0, boost_factor), Scale),
     matched_tags |-> acc.matched_tags,
     expansion_tags |-> acc.expansion_tags,
     boost_factor |-> boost_factor,
     context_blend_ratio |-> context_blend_ratio,
     dynamic_alpha |-> dynamic_alpha,
     dynamic_beta |-> dynamic_beta]

\* boost_vector from step 5 on
VectorBoostBlend(params, acc, ctx, boost_factor, context_blend_ratio, dynamic_alpha, dynamic_beta) ==
    VectorBoostResult(Fuse(params.original_vector, ctx, context_blend_ratio), acc,
                      boost_factor, context_blend_ratio, dynamic_alpha, dynamic_beta)

\* boost_vector from step 4 on
VectorBoostOfContext(params, acc, ctx, normalized_spike, dynamic_alpha, dynamic_beta) ==
    VectorBoostBlend(params, acc, ctx, BoostFactor(normalized_spike),
                     ContextBlendRatio(ctx, normalized_spike,
                         UnwrapOr(params.max_boost_ratio, DefaultMaxBoostRatio)),
                     dynamic_alpha, dynamic_beta)

\* boost_vector from step 3 on
VectorBoostOfMatches(params, acc, dynamic_alpha, dynamic_beta) ==
    VectorBoostOfContext(params, acc, ContextVector(params, params.vector_dim, acc),
                         NormalizedSpike(acc.total_spike_score, dynamic_beta),
                         dynamic_alpha, dynamic_beta)

\* boost_vector from step 2 on
VectorBoostWith(in, params, ord, dynamic_alpha, dynamic_beta) ==
    VectorBoostOfMatches(params, Matches(in, params, ord, dynamic_alpha, dynamic_beta),
                         dynamic_alpha, dynamic_beta)

\* boost_vector from the dynamic parameters on
VectorBoostAt(in, params, ord, avg_score) ==
    VectorBoostWith(in, params, ord,
                    DynamicAlpha(UnwrapOr(params.alpha_min, DefaultAlphaMin),
                                 UnwrapOr(params.alpha_max, DefaultAlphaMax), avg_score),
                    DynamicBeta(UnwrapOr(params.beta_base, DefaultBetaBase), avg_score))

\* the result for a vector whose length is not vector_dim
DimensionMismatch(params) ==
    [panic |-> FALSE,
     fused_vector |-> params.original_vector,
     original_score |-> 0,
     boosted_score |-> 0,
     matched_tags |-> <<>>,
     expansion_tags |-> <<>>,
     boost_factor |-> Scale,
     context_blend_ratio |-> 0,
     dynamic_alpha |-> DefaultAlphaMin,
     dynamic_beta |-> DefaultBetaBase]

\* TagCooccurrenceMatrix::boost_vector
BoostVector(in, params, ord) ==
    IF Len(params.original_vector) # params.vector_dim THEN DimensionMismatch(params)
    ELSE IF ClampPanics(UnwrapOr(params.alpha_min, DefaultAlphaMin),
                        UnwrapOr(params.alpha_max, DefaultAlphaMax))
         THEN [panic |-> TRUE]
         ELSE VectorBoostAt(in, params, ord, AvgScore(in, params.query_tags))

\* --------------------------------------------------------------- JSON
\* A JSON text is modelled by the value it denotes: null, a number, an
\* object, or text that is not JSON at all.

JNull == [t |-> "null"]
JNum(x) == [t |-> "num", v |-> x]
JObj(m) == [t |-> "obj", m |-> m]
JInvalid == [t |-> "invalid"]

\* serde_json of an f64: a number when finite, null otherwise
JsonOfF64(x) == IF IsFinite(x) THEN JNum(x) ELSE JNull
\* serde_json of a HashMap<String, f64>
JsonOfMap(m) == JObj([k \in DOMAIN m |-> JsonOfF64(m[k])])
\* serde_json of a HashMap<String, HashMap<String, f64>>
JsonOfNestedMap(m) == JObj([k \in DOMAIN m |-> JsonOfMap(m[k])])

\* TagCooccurrenceMatrix::to_json
ToJson(in) ==
    JObj([alpha |-> JsonOfF64(in.alpha),
          beta |-> JsonOfF64(in.beta),
          cooccurrence |-> JsonOfNestedMap(in.cooccurrence),
          frequencies |-> JsonOfMap(in.frequencies),
          total_count |-> JsonOfF64(in.total_count)])

\* data[key]: null unless data is an object that has the key
JsonIndex(data, key) ==
    IF data.t = "obj" /\ key \in DOMAIN data.m THEN data.m[key] ELSE JNull
\* Value::as_f64().unwrap_or(d)
AsF64Or(j, d) == IF j.t = "num" THEN j.v ELSE d
\* serde_json::from_value::<HashMap<String, f64>>
IsF64Map(j) == j.t = "obj" /\ \A k \in DOMAIN j.m : j.m[k].t = "num"
F64MapOf(j) == [k \in DOMAIN j.m |-> j.m[k].v]
\* serde_json::from_value(..).unwrap_or_default() at HashMap<String, f64>
MapOrDefault(j) == IF IsF64Map(j) THEN F64MapOf(j) ELSE EmptyMap
\* the same at HashMap<String, HashMap<String, f64>>
NestedMapOrDefault(j) ==
    IF j.t = "obj" /\ \A k \in DOMAIN j.m : IsF64Map(j.m[k])
    THEN [k \in DOMAIN j.m |-> F64MapOf(j.m[k])]
    ELSE EmptyMap

\* TagCooccurrenceMatrix::from_json
FromJson(json) ==
    IF json.t = "invalid" THEN [ok |-> FALSE]
    ELSE [ok |-> TRUE,
          inner |->
            [alpha |-> AsF64Or(JsonIndex(json, "alpha"), DefaultAlpha),
             beta |-> AsF64Or(JsonIndex(json, "beta"), DefaultBeta),
             cooccurrence |-> NestedMapOrDefault(JsonIndex(json, "cooccurrence")),
             frequencies |-> MapOrDefault(JsonIndex(json, "frequencies")),
             total_count |-> AsF64Or(JsonIndex(json, "total_count"), 0),
             min_pmi_threshold |-> 0]]

\* ------------------------------------------------- HybridSearchEngine
\* RRF scores are far below 1, so the scores of the fusion are kept at a
\* finer resolution: there the integer x stands for the real x / RrfScale.
\* FMul and FDiv of such a value with a value at Scale keep its resolution.
RrfScale == Scale * Scale

\* HybridSearchEngine::new
HybridSearchEngineNew(bm25_weight, vector_weight, tag_boost_weight) ==
    [bm25_weight |-> UnwrapOr(bm25_weight, Scale \div 2),
     vector_weight |-> UnwrapOr(vector_weight, Scale \div 2),
     tag_boost_weight |-> UnwrapOr(tag_boost_weight, Scale \div 5),
     rrf_k |-> 60 * Scale]

\* HybridSearchEngine::set_rrf_k
SetRrfK(self, k) == [self EXCEPT !.rrf_k = k]

\* HybridSearchEngine::set_weights
SetWeights(self, bm25, vector, tag_boost) ==
    [self EXCEPT !.bm25_weight = bm25, !.vector_weight = vector,
                 !.tag_boost_weight = tag_boost]

\* HybridScoreBuilder::new
HybridScoreBuilderNew(id, content, metadata) ==
    [id |-> id, content |-> content, metadata |-> metadata,
     bm25_score |-> 0, bm25_rank |-> None, bm25_rrf |-> 0,
     vector_score |-> 0, vector_rank |-> None, vector_rrf |-> 0,
     tag_boost_score |-> 0]

\* the entry made anew for every item
EntryInsert(scores, item) == HybridScoreBuilderNew(item.id, item.content, item.metadata)

\* scores.entry(item.id).or_insert_with(HybridScoreBuilder::new(..))
EntryOrInsert(scores, item) ==
    MapGet(scores, item.id, HybridScoreBuilderNew(item.id, item.content, item.metadata))

\* 1.0 / (rrf_k + rank + 1.0), at RrfScale
RrfScoreFromRankZero(self, rank) ==
    FDiv(RrfScale, FAdd(self.rrf_k, rank * Scale))
RrfScore(self, rank) ==
    FDiv(RrfScale, FAdd(FAdd(self.rrf_k, rank * Scale), Scale))

\* the body of the loop over bm25_results
SetBm25(self, scores, item, rank) ==
    MapPut(scores, item.id,
           [EntryOrInsert(scores, item) EXCEPT
               !.bm25_score = item.score,
               !.bm25_rank = Some(rank),
               !.bm25_rrf = FMul(RrfScore(self, rank), self.bm25_weight)])

\* the loop over bm25_results from position i on
RECURSIVE Bm25Loop(_, _, _, _)
Bm25Loop(self, scores, bm25_results, i) ==
    IF i > Len(bm25_results) THEN scores
    ELSE Bm25Loop(self, SetBm25(self, scores, bm25_results[i], i - 1), bm25_results, i + 1)

\* the body of the loop over vector_results
SetVector(self, scores, item, rank) ==
    MapPut(scores, item.id,
           [EntryOrInsert(scores, item) EXCEPT
               !.vector_score = item.score,
               !.vector_rank = Some(rank),
               !.vector_rrf = FMul(RrfScore(self, rank), self.vector_weight)])

\* the loop over vector_results from position i on
RECURSIVE VectorLoop(_, _, _, _)
VectorLoop(self, scores, vector_results, i) ==
    IF i > Len(vector_results) THEN scores
    ELSE VectorLoop(self, SetVector(self, scores, vector_results[i], i - 1),
                    vector_results, i + 1)

\* the loop over tag_scores: the boost of each id that has an entry
ApplyTagBoost(scores, tag_scores) ==
    [id \in DOMAIN scores |->
        IF Has(tag_scores, id) THEN [scores[id] EXCEPT !.tag_boost_score = tag_scores[id]]
        ELSE scores[id]]

\* the source field of a result
SourceOf(builder) ==
    IF builder.bm25_rank.some /\ builder.vector_rank.some THEN "both"
    ELSE IF builder.bm25_rank.some THEN "bm25"
    ELSE "vector"

\* HybridScoreBuilder::build
Build(builder, tag_boost_weight) ==
    [id |-> builder.id, content |-> builder.content, metadata |-> builder.metadata,
     final_score |-> FMul(FAdd(builder.bm25_rrf, builder.vector_rrf),
                          FAdd(Scale, FMul(builder.tag_boost_score, tag_boost_weight))),
     bm25_score |-> builder.bm25_score, bm25_rank |-> builder.bm25_rank,
     vector_score |-> builder.vector_score, vector_rank |-> builder.vector_rank,
     tag_boost_score |-> builder.tag_boost_score,
     source |-> SourceOf(builder)]

\* one insertion of the stable sort by final_score, descending: r goes behind
\* every element that does not compare below it
RECURSIVE InsertByFinalScore(_, _)
InsertByFinalScore(sorted, r) ==
    IF Len(sorted) = 0 THEN <<r>>
    ELSE IF FLt(sorted[Len(sorted)].final_score, r.final_score)
         THEN Append(InsertByFinalScore(SubSeq(sorted, 1, Len(sorted) - 1), r),
                     sorted[Len(sorted)])
         ELSE Append(sorted, r)

\* results.sort_by(|a, b| b.final_score.partial_cmp(&a.final_score)
\* .unwrap_or(Equal)): a stable sort; the scores of the model are no NaN
RECURSIVE SortByFinalScore(_)
SortByFinalScore(results) ==
    IF Len(results) = 0 THEN <<>>
    ELSE InsertByFinalScore(SortByFinalScore(SubSeq(results, 1, Len(results) - 1)),
                            results[Len(results)])

\* results.truncate(limit)
Truncate(results, limit) ==
    IF Len(results) <= limit THEN results ELSE SubSeq(results, 1, limit)

\* scores.into_values().map(build).collect(), the values in the order keys
\* in which the HashMap yields them
BuildAll(scores, keys, tag_boost_weight) ==
    [i \in DOMAIN keys |-> Build(scores[keys[i]], tag_boost_weight)]

\* fuse_results from the filled score map on
FuseScores(self, scores, limit, ord) ==
    Truncate(SortByFinalScore(BuildAll(scores, IterOrder(scores, ord),
                                       self.tag_boost_weight)),
             limit)

\* HybridSearchEngine::fuse_results; ord is the order in which the HashMap
\* scores yields its keys
FuseResults(self, bm25_results, vector_results, tag_boost_scores, limit, ord) ==
    FuseScores(self,
               ApplyTagBoost(VectorLoop(self, Bm25Loop(self, EmptyMap, bm25_results, 1),
                                        vector_results, 1),
                             UnwrapOr(tag_boost_scores, EmptyMap)),
               UnwrapOr(limit, 20),
               ord)

\* no HybridSearchEngine call and no WaveRAGEngine call is made
NoWaveRAG ==
    /\ hybrid = HybridSearchEngineNew(None, None, None)
    /\ engines = EmptyMap
    /\ issued = <<>>

\* ------------------------------------------------------------ actions

Init ==
    \E args \in NewArgs :
        /\ inner = New(args[1], args[2])
        /\ nOps = 0
        /\ last = [op |-> "new"]
        /\ SingleThreaded
        /\ NoWaveRAG

UpdateAct ==
    /\ nOps < MaxOps
    /\ \E tag1 \in Tags, tag2 \in Tags, weight \in WeightArgs :
        /\ inner' = Update(inner, tag1, tag2, weight)
        /\ last' = [op |-> "update", tag1 |-> tag1, tag2 |-> tag2, weight |-> weight]
    /\ nOps' = nOps + 1
    /\ UNCHANGED <<threadVars, cm, waveVars>>

\* the longest batch the calls left allow
BatchRoom == IF MaxOps - nOps < MaxBatch THEN MaxOps - nOps ELSE MaxBatch

BatchUpdateAct ==
    \E updates \in SeqsUpTo(TagPairUpdates, BatchRoom) :
        /\ nOps + Len(updates) <= MaxOps
        /\ inner' = BatchUpdate(inner, updates)
        /\ last' = [op |-> "batch_update", updates |-> updates]
        /\ nOps' = nOps + Len(updates)
        /\ UNCHANGED <<threadVars, cm, waveVars>>

ClearAct ==
    /\ nOps < MaxOps
    /\ inner' = Clear(inner)
    /\ last' = [op |-> "clear"]
    /\ nOps' = nOps + 1
    /\ UNCHANGED <<threadVars, cm, waveVars>>

SetMinPmiThresholdAct ==
    /\ nOps < MaxOps
    /\ \E threshold \in ThresholdArgs :
        /\ inner' = SetMinPmiThreshold(inner, threshold)
        /\ last' = [op |-> "set_min_pmi_threshold", threshold |-> threshold]
    /\ nOps' = nOps + 1
    /\ UNCHANGED <<threadVars, cm, waveVars>>

ComputePmiAct ==
    /\ \E tag1 \in Tags, tag2 \in Tags :
        last' = [op |-> "compute_pmi", tag1 |-> tag1, tag2 |-> tag2,
                 ret |-> ComputePmi(inner, tag1, tag2)]
    /\ UNCHANGED <<inner, nOps, threadVars, cm, waveVars>>

ToJsonAct ==
    /\ last' = [op |-> "to_json", ret |-> ToJson(inner)]
    /\ UNCHANGED <<inner, nOps, threadVars, cm, waveVars>>

\* from_json of the text the last to_json returned
FromJsonAct ==
    /\ last.op = "to_json"
    /\ LET r == FromJson(last.ret)
       IN  /\ r.ok
           /\ inner' = r.inner
    /\ last' = [op |-> "from_json", json |-> last.ret]
    /\ UNCHANGED <<nOps, threadVars, cm, waveVars>>

Next ==
    \/ UpdateAct
    \/ BatchUpdateAct
    \/ ClearAct
    \/ SetMinPmiThresholdAct
    \/ ComputePmiAct
    \/ ToJsonAct
    \/ FromJsonAct

Spec == Init /\ [][Next]_vars

\* ------------------------------------------- tag boost: inputs, actions

QueryTagLists == SeqsUpTo(Tags, 2)
ContentTagLists == SeqsUpTo(Tags, 2)
\* (original_score, alpha_min, alpha_max, beta_base): the defaults, a score
\* with the defaults, a narrower alpha range, a negative beta_base, and
\* alpha_min above alpha_max
BoostTunings ==
    {<<None, None, None, None>>,
     <<Some((4 * Scale) \div 5), None, None, None>>,
     <<Some((4 * Scale) \div 5), Some(Scale), Some(2 * Scale), None>>,
     <<Some((4 * Scale) \div 5), None, None, Some(0 - ((31 * Scale) \div 10))>>,
     <<Some((4 * Scale) \div 5), Some(4 * Scale), None, None>>}
TagBoostParamsSet ==
    {[query_tags |-> q, content_tags |-> c, original_score |-> t[1],
      alpha_min |-> t[2], alpha_max |-> t[3], beta_base |-> t[4]] :
        q \in QueryTagLists, c \in ContentTagLists, t \in BoostTunings}

\* original_vector with vector_dim: matching, mismatching, the zero vector
VectorArgs ==
    {<<<<3 * Scale, 4 * Scale>>, 2>>, <<<<3 * Scale, 4 * Scale>>, 3>>,
     <<<<0, 0>>, 2>>, <<<<0 - Scale>>, 1>>}
\* (tag_vectors, tag_names): none, and the vectors of "A" and "b" at dimension 2
TagVectorArgs ==
    {<<None, None>>, <<Some(<<Scale, 0, 0, Scale>>), Some(<<"A", "b">>)>>}
VectorBoostParamsSet ==
    {[original_vector |-> v[1], vector_dim |-> v[2], query_tags |-> q,
      content_tags |-> c, tag_vectors |-> tv[1], tag_names |-> tv[2],
      alpha_min |-> None, alpha_max |-> None, beta_base |-> None,
      max_boost_ratio |-> None] :
        v \in VectorArgs, q \in SeqsUpTo(Tags, 1), c \in ContentTagLists,
        tv \in TagVectorArgs}

\* the iteration orders that can differ in their outcome: one when no row of
\* the matrix has two keys
IterOrders(in) ==
    IF \A t \in DOMAIN in.cooccurrence : Cardinality(DOMAIN in.cooccurrence[t]) <= 1
    THEN {CHOOSE ord \in Perms(Tags) : TRUE}
    ELSE Perms(Tags)

InitBoost ==
    /\ inner = New(None, None)
    /\ nOps = 0
    /\ last = [op |-> "new"]
    /\ SingleThreaded
    /\ NoWaveRAG

\* update with the default weight
UpdateDefaultAct ==
    /\ nOps < MaxOps
    /\ \E tag1 \in Tags, tag2 \in Tags :
        /\ inner' = Update(inner, tag1, tag2, None)
        /\ last' = [op |-> "update", tag1 |-> tag1, tag2 |-> tag2, weight |-> None]
    /\ nOps' = nOps + 1
    /\ UNCHANGED <<threadVars, cm, waveVars>>

\* compute_tag_boost and boost_vector take &self and leave the matrix as it
\* is: a query made after another query returns what it returns when made
\* directly after the preceding mutator, so queries start from those states
IsQuery(op) == op \in {"compute_tag_boost", "boost_vector"}

ComputeTagBoostAct ==
    /\ ~IsQuery(last.op)
    /\ \E params \in TagBoostParamsSet, ord \in IterOrders(inner) :
        last' = [op |-> "compute_tag_boost", params |-> params,
                 ret |-> ComputeTagBoost(inner, params, ord)]
    /\ UNCHANGED <<inner, nOps, threadVars, cm, waveVars>>

BoostVectorAct ==
    /\ ~IsQuery(last.op)
    /\ \E params \in VectorBoostParamsSet, ord \in IterOrders(inner) :
        last' = [op |-> "boost_vector", params |-> params,
                 ret |-> BoostVector(inner, params, ord)]
    /\ UNCHANGED <<inner, nOps, threadVars, cm, waveVars>>

NextBoost ==
    \/ UpdateDefaultAct
    \/ ComputeTagBoostAct
    \/ BoostVectorAct

SpecBoost == InitBoost /\ [][NextBoost]_vars

\* ---------------------------------------------------- tag boost claims

\* C6: compute_tag_boost returns boost_factor <= 1.5 and boosted_score <= 1,
\* and dynamic_alpha in [alpha_min, alpha_max], whatever the caller supplies
C6_BoostCap ==
    (last.op = "compute_tag_boost" /\ ~last.ret.panic) =>
        /\ FLe(last.ret.boost_factor, (3 * Scale) \div 2)
        /\ FLe(last.ret.boosted_score, Scale)
        /\ FLe(UnwrapOr(last.params.alpha_min, DefaultAlphaMin), last.ret.dynamic_alpha)
        /\ FLe(last.ret.dynamic_alpha, UnwrapOr(last.params.alpha_max, DefaultAlphaMax))

\* C7: when the matrix has no frequency for any of the query tags,
\* tag_match_score is 0 and boost_factor is 1
C7_UnknownTagsScoreZero ==
    (/\ last.op = "compute_tag_boost"
     /\ ~last.ret.panic
     /\ \A i \in DOMAIN last.params.query_tags :
            ~Has(inner.frequencies, last.params.query_tags[i])) =>
        /\ last.ret.tag_match_score = 0
        /\ last.ret.boost_factor = Scale

\* the L2 norm is 1, to the precision of the arithmetic
NormIsOne(v) ==
    LET norm == L2Norm(v)
    IN  IsFinite(norm) /\ Abs(norm - Scale) <= 5

\* C25: compute_tag_boost and boost_vector score every content tag at most
\* once under case-insensitive comparison: matched_tags and expansion_tags
\* share no tag up to case, and expansion_tags lists no tag twice; so a query
\* tag that is its own neighbour counts as a direct match only
C25_ScoredOnce ==
    (IsQuery(last.op) /\ ~last.ret.panic) =>
        /\ \A i \in DOMAIN last.ret.matched_tags, j \in DOMAIN last.ret.expansion_tags :
              ToLowercase(last.ret.matched_tags[i]) # ToLowercase(last.ret.expansion_tags[j])
        /\ \A i \in DOMAIN last.ret.expansion_tags, j \in DOMAIN last.ret.expansion_tags :
              (i # j) => last.ret.expansion_tags[i] # last.ret.expansion_tags[j]

\* C8: boost_vector returns a fused_vector of L2 norm 1 whenever
\* original_vector is not the zero vector
C8_UnitNorm ==
    (/\ last.op = "boost_vector"
     /\ ~last.ret.panic
     /\ \E i \in DOMAIN last.params.original_vector :
            last.params.original_vector[i] # 0) =>
        NormIsOne(last.ret.fused_vector)

\* ------------------------------------------------------ TagMemo claims

Cooc(in, a, b) == MapGet(MapGet(in.cooccurrence, a, EmptyMap), b, 0)
HasCooc(in, a, b) == Has(in.cooccurrence, a) /\ Has(in.cooccurrence[a], b)

\* C1: after any sequence of update and batch_update calls, cooccurrence[a][b]
\* is present exactly when cooccurrence[b][a] is, and the two values are equal
C1_Symmetric ==
    \A a \in Tags, b \in Tags :
        /\ HasCooc(inner, a, b) <=> HasCooc(inner, b, a)
        /\ HasCooc(inner, a, b) => FEq(inner.cooccurrence[a][b], inner.cooccurrence[b][a])

\* a pair of distinct tags and a self-pair are stored, both decayed once
C1_Witness ==
    /\ nOps = 2
    /\ \E a \in Tags, b \in Tags :
        /\ a # b
        /\ HasCooc(inner, a, b) /\ inner.cooccurrence[a][b] # 0
        /\ HasCooc(inner, a, a) /\ inner.cooccurrence[a][a] # 0

\* the step is update(a, b, w) with a # b and gives every field the value
\* the rule prescribes, and no other field changes
C2_UpdateStep ==
    (last'.op = "update" /\ last'.tag1 # last'.tag2) =>
        LET a == last'.tag1
            b == last'.tag2
            w == UnwrapOr(last'.weight, DefaultWeight)
            v == FAdd(FMul(Cooc(inner, a, b), inner.beta), FMul(w, inner.alpha))
        IN  /\ HasCooc(inner', a, b) /\ inner'.cooccurrence[a][b] = v
            /\ HasCooc(inner', b, a) /\ inner'.cooccurrence[b][a] = v
            /\ inner'.frequencies[a] = FAdd(MapGet(inner.frequencies, a, 0), w)
            /\ inner'.frequencies[b] = FAdd(MapGet(inner.frequencies, b, 0), w)
            /\ inner'.total_count = FAdd(inner.total_count, FMul(w, 2 * Scale))
            /\ \A x \in Tags, y \in Tags :
                <<x, y>> \notin {<<a, b>>, <<b, a>>} =>
                    /\ HasCooc(inner', x, y) <=> HasCooc(inner, x, y)
                    /\ Cooc(inner', x, y) = Cooc(inner, x, y)
            /\ \A x \in Tags \ {a, b} :
                /\ Has(inner'.frequencies, x) <=> Has(inner.frequencies, x)
                /\ MapGet(inner'.frequencies, x, 0) = MapGet(inner.frequencies, x, 0)
            /\ inner'.alpha = inner.alpha
            /\ inner'.beta = inner.beta
            /\ inner'.min_pmi_threshold = inner.min_pmi_threshold

\* the matrix after n updates of weight 1 on the pair (a, b) alone
OnlyPair(in, a, b, cooc, freq, total) ==
    /\ in.alpha = 800 /\ in.beta = 200
    /\ in.cooccurrence = (a :> (b :> cooc)) @@ (b :> (a :> cooc))
    /\ in.frequencies = (a :> freq) @@ (b :> freq)
    /\ in.total_count = total

\* with alpha = 0.8 and beta = 0.2, update(a, b, 1) takes the empty matrix to
\* 0.8 / 1 / 2 and that matrix to 0.96 / 2 / 4
C2_Example ==
    (last'.op = "update" /\ last'.tag1 # last'.tag2
        /\ UnwrapOr(last'.weight, DefaultWeight) = 1000
        /\ inner.alpha = 800 /\ inner.beta = 200) =>
        LET a == last'.tag1
            b == last'.tag2
        IN  /\ (inner.cooccurrence = EmptyMap /\ inner.frequencies = EmptyMap
                    /\ inner.total_count = 0)
                => OnlyPair(inner', a, b, 800, 1000, 2000)
            /\ OnlyPair(inner, a, b, 800, 1000, 2000)
                => OnlyPair(inner', a, b, 960, 2000, 4000)

\* C2: one update(a, b, w) with a # b sets both cooccurrence entries to
\* old * beta + w * alpha, adds w to both frequencies and 2w to total_count and
\* changes nothing else; on the empty matrix two updates of weight 1 give
\* 0.8 then 0.96, frequencies 1 then 2, total 2 then 4
C2_Update == [][C2_UpdateStep /\ C2_Example]_vars

\* the second update of weight 1 on a pair has been made
C2_Witness ==
    /\ last.op = "update" /\ last.tag1 # last.tag2
    /\ OnlyPair(inner, last.tag1, last.tag2, 960, 2000, 4000)

\* update called on each element of the list in order
RECURSIVE UpdateEach(_, _, _)
UpdateEach(in, updates, i) ==
    IF i > Len(updates) THEN in
    ELSE UpdateEach(Update(in, updates[i].tag1, updates[i].tag2, updates[i].weight),
                    updates, i + 1)

\* C3: batch_update(us) leaves the matrix in the state that update on each
\* element of us, in list order, leaves it in
C3_BatchIsSequence ==
    [][last'.op = "batch_update" => inner' = UpdateEach(inner, last'.updates, 1)]_vars

\* a batch that names the same pair twice, with different weights
C3_Witness ==
    /\ last.op = "batch_update"
    /\ Len(last.updates) = 2
    /\ {last.updates[1].tag1, last.updates[1].tag2}
         = {last.updates[2].tag1, last.updates[2].tag2}
    /\ last.updates[1].tag1 # last.updates[1].tag2
    /\ last.updates[1].weight # last.updates[2].weight
    /\ Cooc(inner, last.updates[1].tag1, last.updates[1].tag2) # 0

\* C5: compute_pmi returns 0 whenever total_count, a frequency or the
\* cooccurrence is 0 or absent, and never returns NaN or an infinite value
C5_PmiFinite ==
    last.op = "compute_pmi" =>
        /\ (\/ inner.total_count = 0
            \/ MapGet(inner.frequencies, last.tag1, 0) = 0
            \/ MapGet(inner.frequencies, last.tag2, 0) = 0
            \/ Cooc(inner, last.tag1, last.tag2) = 0) => last.ret = 0
        /\ IsFinite(last.ret)

\* C9: from_json(to_json(M)) has M's alpha, beta, cooccurrence, frequencies
\* and total_count, and min_pmi_threshold 0
C9_RoundTrip ==
    LET r == FromJson(ToJson(inner))
    IN  /\ r.ok
        /\ r.inner = [inner EXCEPT !.min_pmi_threshold = 0]

\* ------------------------------------------- TagMemo under threads
\* Every method of TagCooccurrenceMatrix takes the RwLock first and holds the
\* guard to its end. A writing call is taken one assignment at a time, a
\* reading call one field at a time.

ConcTags == {"a", "b"}
ConcUpdates == [tag1 : ConcTags, tag2 : ConcTags, weight : {None}]

\* RwLock::write returns when no thread holds the lock
CanWrite(l) == l.writer = NoThread /\ l.readers = {}

\* a read guard handed out while a writer holds the lock
CanReadWhileWriting(l) == TRUE

\* RwLock::read returns when no writer holds the lock
CanRead(l) == l.writer = NoThread

\* the update a writing call is at
CurrentUpdate(t) == frame[t].updates[frame[t].i]
CurrentWeight(t) == UnwrapOr(CurrentUpdate(t).weight, DefaultWeight)

InitConc ==
    /\ inner = New(None, None)
    /\ nOps = 0
    /\ last = [op |-> "new"]
    /\ lock = Unlocked
    /\ pc = AllIdle
    /\ frame = NoFrames
    /\ cm = NewCooccurrenceMatrix
    /\ NoWaveRAG

\* update: the write lock, alpha and beta
UpdateEnter(t) ==
    /\ pc[t] = "idle"
    /\ nOps < MaxOps
    /\ CanWrite(lock)
    /\ \E u \in ConcUpdates :
        frame' = [frame EXCEPT ![t] = [op |-> "update", updates |-> <<u>>, i |-> 1,
                                       alpha |-> inner.alpha, beta |-> inner.beta]]
    /\ lock' = [lock EXCEPT !.writer = t]
    /\ pc' = [pc EXCEPT ![t] = "cooc1"]
    /\ nOps' = nOps + 1
    /\ UNCHANGED <<inner, last, cm, waveVars>>

\* batch_update: the write lock, alpha and beta
BatchUpdateEnter(t) ==
    /\ pc[t] = "idle"
    /\ CanWrite(lock)
    /\ \E updates \in SeqsUpTo(ConcUpdates, MaxBatch) :
        /\ nOps + Len(updates) <= MaxOps
        /\ frame' = [frame EXCEPT ![t] = [op |-> "batch_update", updates |-> updates,
                                          i |-> 1,
                                          alpha |-> inner.alpha, beta |-> inner.beta]]
        /\ pc' = [pc EXCEPT ![t] = IF Len(updates) = 0 THEN "unlock" ELSE "cooc1"]
        /\ nOps' = nOps + Len(updates)
    /\ lock' = [lock EXCEPT !.writer = t]
    /\ UNCHANGED <<inner, last, cm, waveVars>>

\* the count of (tag1, tag2)
WriteCooc1(t) ==
    /\ pc[t] = "cooc1"
    /\ inner' = [inner EXCEPT !.cooccurrence =
                    DecayEntry(@, CurrentUpdate(t).tag1, CurrentUpdate(t).tag2,
                               CurrentWeight(t), frame[t].alpha, frame[t].beta)]
    /\ pc' = [pc EXCEPT ![t] = "cooc2"]
    /\ UNCHANGED <<nOps, last, lock, frame, cm, waveVars>>

\* the count of (tag2, tag1)
WriteCooc2(t) ==
    /\ pc[t] = "cooc2"
    /\ inner' = [inner EXCEPT !.cooccurrence =
                    DecayEntry(@, CurrentUpdate(t).tag2, CurrentUpdate(t).tag1,
                               CurrentWeight(t), frame[t].alpha, frame[t].beta)]
    /\ pc' = [pc EXCEPT ![t] = "freq1"]
    /\ UNCHANGED <<nOps, last, lock, frame, cm, waveVars>>

\* the frequency of tag1
WriteFreq1(t) ==
    /\ pc[t] = "freq1"
    /\ inner' = [inner EXCEPT !.frequencies =
                    AddFrequency(@, CurrentUpdate(t).tag1, CurrentWeight(t))]
    /\ pc' = [pc EXCEPT ![t] = "freq2"]
    /\ UNCHANGED <<nOps, last, lock, frame, cm, waveVars>>

\* the frequency of tag2
WriteFreq2(t) ==
    /\ pc[t] = "freq2"
    /\ inner' = [inner EXCEPT !.frequencies =
                    AddFrequency(@, CurrentUpdate(t).tag2, CurrentWeight(t))]
    /\ pc' = [pc EXCEPT ![t] = "total"]
    /\ UNCHANGED <<nOps, last, lock, frame, cm, waveVars>>

\* total_count, then the next update of the list or the end of the call
WriteTotal(t) ==
    /\ pc[t] = "total"
    /\ inner' = [inner EXCEPT !.total_count =
                    FAdd(@, FMul(CurrentWeight(t), 2 * Scale))]
    /\ IF frame[t].i < Len(frame[t].updates)
       THEN /\ frame' = [frame EXCEPT ![t].i = @ + 1]
            /\ pc' = [pc EXCEPT ![t] = "cooc1"]
       ELSE /\ frame' = frame
            /\ pc' = [pc EXCEPT ![t] = "unlock"]
    /\ UNCHANGED <<nOps, last, lock, cm, waveVars>>

\* clear: the write lock
ClearEnter(t) ==
    /\ pc[t] = "idle"
    /\ CanWrite(lock)
    /\ frame' = [frame EXCEPT ![t] = [op |-> "clear"]]
    /\ lock' = [lock EXCEPT !.writer = t]
    /\ pc' = [pc EXCEPT ![t] = "clear_cooc"]
    /\ UNCHANGED <<inner, nOps, last, cm, waveVars>>

ClearCooccurrence(t) ==
    /\ pc[t] = "clear_cooc"
    /\ inner' = [inner EXCEPT !.cooccurrence = EmptyMap]
    /\ pc' = [pc EXCEPT ![t] = "clear_freq"]
    /\ UNCHANGED <<nOps, last, lock, frame, cm, waveVars>>

ClearFrequencies(t) ==
    /\ pc[t] = "clear_freq"
    /\ inner' = [inner EXCEPT !.frequencies = EmptyMap]
    /\ pc' = [pc EXCEPT ![t] = "clear_total"]
    /\ UNCHANGED <<nOps, last, lock, frame, cm, waveVars>>

ClearTotal(t) ==
    /\ pc[t] = "clear_total"
    /\ inner' = [inner EXCEPT !.total_count = 0]
    /\ pc' = [pc EXCEPT ![t] = "unlock"]
    /\ UNCHANGED <<nOps, last, lock, frame, cm, waveVars>>

\* the end of a writing call: the write guard is dropped
WriteUnlock(t) ==
    /\ pc[t] = "unlock"
    /\ lock' = [lock EXCEPT !.writer = NoThread]
    /\ pc' = [pc EXCEPT ![t] = "idle"]
    /\ last' = [op |-> frame[t].op, thread |-> t]
    /\ frame' = [frame EXCEPT ![t] = [op |-> "none"]]
    /\ UNCHANGED <<inner, nOps, cm, waveVars>>

\* to_json: the read lock, alpha and beta
ToJsonEnter(t) ==
    /\ pc[t] = "idle"
    /\ CanRead(lock)
    /\ lock' = [lock EXCEPT !.readers = @ \cup {t}]
    /\ frame' = [frame EXCEPT ![t] = [op |-> "to_json", alpha |-> inner.alpha,
                                      beta |-> inner.beta, cooccurrence |-> EmptyMap,
                                      frequencies |-> EmptyMap, total_count |-> 0,
                                      min_pmi_threshold |-> 0]]
    /\ pc' = [pc EXCEPT ![t] = "read_cooc"]
    /\ UNCHANGED <<inner, nOps, last, cm, waveVars>>

ReadCooccurrence(t) ==
    /\ pc[t] = "read_cooc"
    /\ frame' = [frame EXCEPT ![t].cooccurrence = inner.cooccurrence]
    /\ pc' = [pc EXCEPT ![t] = "read_freq"]
    /\ UNCHANGED <<inner, nOps, last, lock, cm, waveVars>>

ReadFrequencies(t) ==
    /\ pc[t] = "read_freq"
    /\ frame' = [frame EXCEPT ![t].frequencies = inner.frequencies]
    /\ pc' = [pc EXCEPT ![t] = "read_total"]
    /\ UNCHANGED <<inner, nOps, last, lock, cm, waveVars>>

ReadTotalCount(t) ==
    /\ pc[t] = "read_total"
    /\ frame' = [frame EXCEPT ![t].total_count = inner.total_count]
    /\ pc' = [pc EXCEPT ![t] = "return"]
    /\ UNCHANGED <<inner, nOps, last, lock, cm, waveVars>>

\* the end of to_json: the text of what was read, and the read guard dropped
ToJsonReturn(t) ==
    /\ pc[t] = "return"
    /\ last' = [op |-> "to_json", thread |-> t, ret |-> ToJson(frame[t])]
    /\ lock' = [lock EXCEPT !.readers = @ \ {t}]
    /\ pc' = [pc EXCEPT ![t] = "idle"]
    /\ frame' = [frame EXCEPT ![t] = [op |-> "none"]]
    /\ UNCHANGED <<inner, nOps, cm, waveVars>>

NextConc ==
    \/ \E t \in Threads : UpdateEnter(t)
    \/ \E t \in Threads : BatchUpdateEnter(t)
    \/ \E t \in Threads : WriteCooc1(t)
    \/ \E t \in Threads : WriteCooc2(t)
    \/ \E t \in Threads : WriteFreq1(t)
    \/ \E t \in Threads : WriteFreq2(t)
    \/ \E t \in Threads : WriteTotal(t)
    \/ \E t \in Threads : ClearEnter(t)
    \/ \E t \in Threads : ClearCooccurrence(t)
    \/ \E t \in Threads : ClearFrequencies(t)
    \/ \E t \in Threads : ClearTotal(t)
    \/ \E t \in Threads : WriteUnlock(t)
    \/ \E t \in Threads : ToJsonEnter(t)
    \/ \E t \in Threads : ReadCooccurrence(t)
    \/ \E t \in Threads : ReadFrequencies(t)
    \/ \E t \in Threads : ReadTotalCount(t)
    \/ \E t \in Threads : ToJsonReturn(t)

SpecConc == InitConc /\ [][NextConc]_vars

\* ---------------------------------------------------- threads: claims

\* the positions of a call that holds the read guard
ReadSection == {"read_cooc", "read_freq", "read_total", "return"}
\* the positions of a call that holds the write guard
WriteSection == {"cooc1", "cooc2", "freq1", "freq2", "total",
                 "clear_cooc", "clear_freq", "clear_total", "unlock"}

\* cooccurrence[a][b] and cooccurrence[b][a] are both absent, or present and equal
SymmetricCooc(cooc) ==
    \A a \in ConcTags, b \in ConcTags :
        LET ab == Has(cooc, a) /\ Has(cooc[a], b)
            ba == Has(cooc, b) /\ Has(cooc[b], a)
        IN  /\ ab <=> ba
            /\ ab => cooc[a][b] = cooc[b][a]

\* the sum of the frequencies
SumOfFrequencies(freq) ==
    SumFrom([i \in 1..Cardinality(DOMAIN freq) |->
                freq[(CHOOSE s \in Perms(DOMAIN freq) : TRUE)[i]]], 1)

\* every tag with a cooccurrence row has its frequency, and total_count is
\* the sum of the frequencies: no update is half applied
WholeUpdates(snap) ==
    /\ \A a \in DOMAIN snap.cooccurrence : Has(snap.frequencies, a)
    /\ snap.total_count = SumOfFrequencies(snap.frequencies)

\* the call that made the step is update, batch_update or clear
MutatorStep == last'.op \in {"update", "batch_update", "clear"}

C4_ReadersSeeWholeUpdates ==
    \A t \in Threads :
        /\ pc[t] \in ReadSection =>
              /\ lock.writer = NoThread
              /\ \A u \in Threads : pc[u] \notin WriteSection
        /\ pc[t] = "return" =>
              /\ SymmetricCooc(frame[t].cooccurrence)
              /\ WholeUpdates(frame[t])

\* a reader has read the pair (a, b) that an update of the other thread wrote,
\* while the other thread waits for the lock or reads
C4_Witness ==
    /\ pc["t1"] = "return"
    /\ Has(frame["t1"].cooccurrence, "a")
    /\ Has(frame["t1"].cooccurrence["a"], "b")
    /\ last.op \in {"update", "batch_update"}
    /\ last.thread = "t2"

\* ------------------------------------------------ CooccurrenceMatrix

\* documents per build_from_documents call
MaxDocs == 2

NpmiTags == {"a", "b", "c"}
\* the byte order of the tags, which Vec<String>::sort follows
TagRank(t) == CASE t = "A" -> 1 [] t = "a" -> 2 [] t = "b" -> 3 [] OTHER -> 4
DocIds == {"d1", "d2"}
DocTagLists ==
    {<<>>, <<"a">>, <<"a", "b">>, <<"b", "a">>, <<"a", "a", "b">>, <<"a", "b", "c">>,
     <<"c", "a">>}
Documents == [id : DocIds, tags : DocTagLists]
DocumentLists == SeqsUpTo(Documents, MaxDocs)

\* step 1: for each tag, the ids of the documents that list it
TagDocSet(documents) ==
    [t \in UNION {Range(documents[k].tags) : k \in DOMAIN documents} |->
        {documents[k].id : k \in {k \in DOMAIN documents : t \in Range(documents[k].tags)}}]

\* step 2: tags.sort()
SortedTags(S) ==
    CHOOSE s \in Perms(S) : \A i \in DOMAIN s, j \in DOMAIN s :
        i < j => TagRank(s[i]) < TagRank(s[j])

\* step 2: the index of each tag in the sorted list, from 0
TagIndex(tags) == [t \in Range(tags) |-> (CHOOSE i \in DOMAIN tags : tags[i] = t) - 1]

\* step 3: tag_freq.insert for each tag of the documents, on top of what
\* tag_freq holds
TagFreq(tag_freq, tag_doc_set) ==
    [t \in DOMAIN tag_freq \cup DOMAIN tag_doc_set |->
        IF t \in DOMAIN tag_doc_set THEN Cardinality(tag_doc_set[t]) ELSE tag_freq[t]]

\* step 4: the indices of the tags of one document, in the order of its list
DocTags(doc, tag_index) ==
    LET known == SelectSeq(doc.tags, LAMBDA t : Has(tag_index, t))
    IN  [k \in DOMAIN known |-> tag_index[known[k]]]

\* step 4: the key of the pair at positions i < j of doc_tags
PairKey(doc_tags, i, j) ==
    IF doc_tags[i] < doc_tags[j] THEN <<doc_tags[i], doc_tags[j]>>
    ELSE <<doc_tags[j], doc_tags[i]>>

\* step 4: the pairs of positions of every document, each with its key
PairPositions(documents, tag_index) ==
    UNION {{[doc |-> k, i |-> p[1], j |-> p[2],
             key |-> PairKey(DocTags(documents[k], tag_index), p[1], p[2])] :
                p \in {q \in (DOMAIN DocTags(documents[k], tag_index))
                               \X (DOMAIN DocTags(documents[k], tag_index)) :
                          q[1] < q[2]}} :
           k \in DOMAIN documents}

\* step 4: cooccur_count
CooccurCount(positions) ==
    [key \in {p.key : p \in positions} |->
        Cardinality({p \in positions : p.key = key})]

\* x / -y, where the y of the code is the logarithm of a ratio of counts: at
\* y = 0.0 the divisor is -0.0
DivByNegated(x, y) ==
    IF IsNaN(x) \/ IsNaN(y) THEN NaN
    ELSE IF y = 0
         THEN (IF x = 0 THEN NaN ELSE IF x > 0 THEN NInf ELSE PInf)
         ELSE FDiv(x, FNeg(y))

\* (npmi + 1) / 2 of pmi and p_xy
WeightOfPmi(pmi, p_xy) == FDiv(FAdd(DivByNegated(pmi, FLn(p_xy)), Scale), 2 * Scale)

\* step 5: the weight from the three probabilities
WeightOfProbabilities(p_xy, p_x, p_y) ==
    WeightOfPmi(FLn(FDiv(p_xy, FMul(p_x, p_y))), p_xy)

\* step 5: the weight of a pair counted count times
NpmiWeight(count, freq1, freq2, total_docs) ==
    WeightOfProbabilities(FDiv(count * Scale, total_docs * Scale),
                          FDiv(freq1 * Scale, total_docs * Scale),
                          FDiv(freq2 * Scale, total_docs * Scale))

\* step 5: the pairs the loop skips
Skipped(key, count, tags, tag_freq) ==
    \/ count = 0
    \/ MapGet(tag_freq, tags[key[1] + 1], 0) = 0
    \/ MapGet(tag_freq, tags[key[2] + 1], 0) = 0

\* step 5: weights.insert((i, j), w) and weights.insert((j, i), w) for each
\* pair of cooccur_count, on top of what weights holds
Weights(weights, cooccur_count, tags, tag_freq, total_docs) ==
    LET stored == {key \in DOMAIN cooccur_count :
                      ~Skipped(key, cooccur_count[key], tags, tag_freq)}
        KeyOf(k) == IF k \in stored THEN k ELSE <<k[2], k[1]>>
    IN  [k \in DOMAIN weights \cup stored \cup {<<key[2], key[1]>> : key \in stored} |->
            IF KeyOf(k) \in stored
            THEN NpmiWeight(cooccur_count[KeyOf(k)],
                            MapGet(tag_freq, tags[KeyOf(k)[1] + 1], 0),
                            MapGet(tag_freq, tags[KeyOf(k)[2] + 1], 0),
                            total_docs)
            ELSE weights[k]]

\* build_from_documents from step 4 on
BuildWeights(self, documents, tags, tag_index, tag_freq) ==
    [tags |-> tags,
     tag_index |-> tag_index,
     weights |-> Weights(self.weights,
                         CooccurCount(PairPositions(documents, tag_index)),
                         tags, tag_freq, Len(documents)),
     tag_freq |-> tag_freq,
     total_docs |-> Len(documents)]

\* build_from_documents from step 2 on
BuildFromTagDocSet(self, documents, tag_doc_set, tags) ==
    BuildWeights(self, documents, tags, TagIndex(tags),
                 TagFreq(self.tag_freq, tag_doc_set))

\* CooccurrenceMatrix::build_from_documents: the matrix it leaves
BuildFromDocuments(self, documents) ==
    IF Len(documents) = 0 THEN self
    ELSE BuildFromTagDocSet(self, documents, TagDocSet(documents),
                            SortedTags(DOMAIN TagDocSet(documents)))

\* CooccurrenceMatrix::build_from_documents: the number it returns
BuildReturn(self, documents) ==
    IF Len(documents) = 0 THEN 0
    ELSE Cardinality(DOMAIN BuildFromDocuments(self, documents).weights) \div 2

\* a JSON string and a JSON array
JStr(x) == [t |-> "str", v |-> x]
JArr(s) == [t |-> "arr", v |-> s]

\* format!("{}", w) of an f64 as JSON text: the number when finite; NaN, inf
\* and -inf are no JSON
JsonOfDisplayF64(w) == IF IsFinite(w) THEN JNum(w) ELSE JInvalid

\* the keys of weights that to_json writes
UpperTriangle(weights) == {key \in DOMAIN weights : key[1] < key[2]}

\* CooccurrenceMatrix::to_json
CooccurrenceToJson(self) ==
    IF \E key \in UpperTriangle(self.weights) : ~IsFinite(self.weights[key])
    THEN JInvalid
    ELSE JObj([tags |-> JArr([i \in DOMAIN self.tags |-> JStr(self.tags[i])]),
               tagFreq |-> JObj([t \in DOMAIN self.tag_freq |-> JNum(self.tag_freq[t])]),
               weights |-> JObj([key \in UpperTriangle(self.weights) |->
                                    JsonOfDisplayF64(self.weights[key])]),
               totalDocs |-> JNum(self.total_docs)])

\* from_json: tags and tag_index of the "tags" array
TagsOfJson(j) ==
    IF j.t = "arr"
    THEN [i \in DOMAIN SelectSeq(j.v, LAMBDA e : e.t = "str") |->
             SelectSeq(j.v, LAMBDA e : e.t = "str")[i].v]
    ELSE <<>>

\* from_json: tag_freq of the "tagFreq" object
TagFreqOfJson(j) ==
    IF j.t = "obj"
    THEN [t \in {k \in DOMAIN j.m : j.m[k].t = "num"} |-> j.m[t].v]
    ELSE EmptyMap

\* from_json: weights of the "weights" object, each entry under (i, j) and
\* under (j, i)
WeightsOfJson(j) ==
    IF j.t = "obj"
    THEN LET read == {k \in DOMAIN j.m : j.m[k].t = "num"}
         IN  [key \in read \cup {<<k[2], k[1]>> : k \in read} |->
                 IF key \in read THEN j.m[key].v ELSE j.m[<<key[2], key[1]>>].v]
    ELSE EmptyMap

\* CooccurrenceMatrix::from_json
CooccurrenceFromJson(json) ==
    IF json.t = "invalid" THEN [ok |-> FALSE]
    ELSE [ok |-> TRUE,
          matrix |->
            [tags |-> TagsOfJson(JsonIndex(json, "tags")),
             tag_index |-> TagIndex(TagsOfJson(JsonIndex(json, "tags"))),
             weights |-> WeightsOfJson(JsonIndex(json, "weights")),
             tag_freq |-> TagFreqOfJson(JsonIndex(json, "tagFreq")),
             total_docs |-> AsF64Or(JsonIndex(json, "totalDocs"), 0)]]

InitNpmi ==
    /\ cm = NewCooccurrenceMatrix
    /\ inner = New(None, None)
    /\ nOps = 0
    /\ last = [op |-> "new"]
    /\ lock = Unlocked
    /\ pc = AllIdle
    /\ frame = NoFrames
    /\ NoWaveRAG

BuildFromDocumentsAct ==
    /\ nOps < MaxOps
    /\ \E documents \in DocumentLists :
        /\ cm' = BuildFromDocuments(cm, documents)
        /\ last' = [op |-> "build_from_documents", documents |-> documents,
                    ret |-> BuildReturn(cm, documents)]
    /\ nOps' = nOps + 1
    /\ UNCHANGED <<inner, threadVars, waveVars>>

\* to_json of the matrix a build left
CooccurrenceToJsonAct ==
    /\ last.op = "build_from_documents"
    /\ last' = [op |-> "to_json", ret |-> CooccurrenceToJson(cm)]
    /\ UNCHANGED <<cm, inner, nOps, threadVars, waveVars>>

\* from_json of the text the last to_json returned: the matrix it makes takes
\* the place of the matrix, or the call fails and nothing changes
CooccurrenceFromJsonAct ==
    /\ last.op = "to_json"
    /\ last' = [op |-> "from_json", ok |-> CooccurrenceFromJson(last.ret).ok]
    /\ cm' = IF CooccurrenceFromJson(last.ret).ok
             THEN CooccurrenceFromJson(last.ret).matrix
             ELSE cm
    /\ UNCHANGED <<inner, nOps, threadVars, waveVars>>

NextNpmi ==
    \/ BuildFromDocumentsAct
    \/ CooccurrenceToJsonAct
    \/ CooccurrenceFromJsonAct

SpecNpmi == InitNpmi /\ [][NextNpmi]_vars

\* --------------------------------------- CooccurrenceMatrix: claims

\* the list without the repetitions of its elements, first occurrences kept
RECURSIVE Dedup(_)
Dedup(s) ==
    IF Len(s) = 0 THEN <<>>
    ELSE LET front == Dedup(SubSeq(s, 1, Len(s) - 1))
         IN  IF s[Len(s)] \in Range(front) THEN front ELSE Append(front, s[Len(s)])

\* the documents with each tag list deduplicated
DedupDocuments(documents) ==
    [k \in DOMAIN documents |-> [documents[k] EXCEPT !.tags = Dedup(@)]]

\* C10: build_from_documents leaves the matrix it leaves for the documents
\* with the repeated tags removed, and stores no pair (i, i)
C10_TagsAsSet ==
    [][(last'.op = "build_from_documents") =>
          /\ cm' = BuildFromDocuments(cm, DedupDocuments(last'.documents))
          /\ \A key \in DOMAIN cm'.weights : key[1] # key[2]]_vars

\* the last call was a build_from_documents that did not return early
BuiltNonEmpty == last.op = "build_from_documents" /\ Len(last.documents) > 0

\* C11: after build_from_documents on a non-empty document list, every stored
\* pair (i, j) has an equal weight stored under (j, i), and every stored
\* weight is a number of the closed interval [0, 1]
C11_WeightsSymmetricInUnitInterval ==
    BuiltNonEmpty =>
        \A key \in DOMAIN cm.weights :
            /\ <<key[2], key[1]>> \in DOMAIN cm.weights
            /\ FEq(cm.weights[<<key[2], key[1]>>], cm.weights[key])
            /\ FLe(0, cm.weights[key])
            /\ FLe(cm.weights[key], Scale)

\* the pairs of the last build that every document counts once, between tags
\* that every document lists
InEveryDocument ==
    LET count == CooccurCount(PairPositions(last.documents, cm.tag_index))
    IN  {key \in DOMAIN count :
            /\ key[1] # key[2]
            /\ count[key] = Len(last.documents)
            /\ cm.tag_freq[cm.tags[key[1] + 1]] = Len(last.documents)
            /\ cm.tag_freq[cm.tags[key[2] + 1]] = Len(last.documents)}

\* C12: a pair of tags that co-occur in every document (pair count and both
\* tag frequencies equal to the number of documents) is stored with weight 1
C12_AlwaysTogetherWeighsOne ==
    BuiltNonEmpty =>
        \A key \in InEveryDocument :
            /\ key \in DOMAIN cm.weights
            /\ FEq(cm.weights[key], Scale)

\* CooccurrenceMatrix::get_cooccurrence
GetCooccurrence(self, tag1, tag2) ==
    IF ~Has(self.tag_index, tag1) \/ ~Has(self.tag_index, tag2) THEN 0
    ELSE MapGet(self.weights, <<self.tag_index[tag1], self.tag_index[tag2]>>, 0)

\* CooccurrenceMatrix::get_tag_info: the frequency of the TagInfo it returns
GetTagInfo(self, tag) ==
    IF Has(self.tag_freq, tag) THEN Some(self.tag_freq[tag]) ELSE None

\* the matrix has the fields and gives the answers of the matrix other
SameMatrix(self, other) ==
    /\ self = other
    /\ \A tag \in NpmiTags : GetTagInfo(self, tag) = GetTagInfo(other, tag)
    /\ \A tag1 \in NpmiTags, tag2 \in NpmiTags :
          GetCooccurrence(self, tag1, tag2) = GetCooccurrence(other, tag1, tag2)

\* C13: build_from_documents replaces the matrix wholesale: after a build on a
\* non-empty list the fields of the matrix and the answers of
\* get_cooccurrence and get_tag_info are those of a new matrix on which that
\* build alone was run, and the build returns what it returns there
C13_BuildReplaces ==
    [][(last'.op = "build_from_documents" /\ Len(last'.documents) > 0) =>
          /\ SameMatrix(cm', BuildFromDocuments(NewCooccurrenceMatrix, last'.documents))
          /\ last'.ret = BuildReturn(NewCooccurrenceMatrix, last'.documents)]_vars

\* C14: after one or more builds tags is sorted without duplicates,
\* tag_index[tags[i]] = i at every position i, and both parts of every key
\* of weights are positions of tags whose tags have a nonzero tag_freq
C14_IndexedWeights ==
    (last.op = "build_from_documents") =>
        /\ \A i \in DOMAIN cm.tags, j \in DOMAIN cm.tags :
              i < j => TagRank(cm.tags[i]) < TagRank(cm.tags[j])
        /\ DOMAIN cm.tag_index = Range(cm.tags)
        /\ \A i \in DOMAIN cm.tags : cm.tag_index[cm.tags[i]] = i - 1
        /\ \A key \in DOMAIN cm.weights : \A n \in {key[1], key[2]} :
              /\ n + 1 \in DOMAIN cm.tags
              /\ MapGet(cm.tag_freq, cm.tags[n + 1], 0) > 0

\* C15: from_json accepts the to_json of a matrix that build_from_documents
\* produced, and the matrix it makes has the tags, tag_index, tag_freq,
\* total_docs and weights of that matrix
C15_NpmiRoundTrip ==
    [][(last'.op = "from_json") => (last'.ok /\ cm' = cm)]_vars

\* ------------------------------- HybridSearchEngine: inputs, actions

\* items per input stream of fuse_results
MaxRank == 2

FuseIds == {"x", "y"}
IdLists == SeqsUpTo(FuseIds, MaxRank)
\* the stream of the lexical search and of the vector search with these ids
Bm25Results(ids) ==
    [i \in DOMAIN ids |->
        [id |-> ids[i], content |-> <<"from bm25", i>>, metadata |-> None,
         score |-> (2 * Scale) \div i]]
VectorResults(ids) ==
    [i \in DOMAIN ids |->
        [id |-> ids[i], content |-> <<"from vector", i>>, metadata |-> None,
         score |-> (9 * Scale) \div (10 * i)]]
TagBoostScoreArgs ==
    {None, Some([id \in {"y"} |-> Scale]),
     Some([id \in {"x", "w"} |-> IF id = "x" THEN Scale \div 2 ELSE 3 * Scale])}
LimitArgs == {None, Some(1)}
HybridNewArgs == {<<None, None, None>>, <<Some((7 * Scale) \div 10), Some((3 * Scale) \div 10), Some(Scale)>>}
RrfKArgs == {Scale}
SetWeightsArgs == {<<Scale, Scale, 0>>}

\* the orders in which the HashMap scores may yield its keys; one order
\* stands for all when no two ids have the same final score, since the sort
\* then undoes the order
FuseOrders(self, bm25_results, vector_results, tag_boost_scores) ==
    IF \E ord \in Perms(FuseIds) :
          FuseResults(self, bm25_results, vector_results, tag_boost_scores, None, ord)
          # FuseResults(self, bm25_results, vector_results, tag_boost_scores, None,
                        CHOOSE o \in Perms(FuseIds) : TRUE)
    THEN Perms(FuseIds)
    ELSE {CHOOSE o \in Perms(FuseIds) : TRUE}

InitFuse ==
    /\ \E args \in HybridNewArgs : hybrid = HybridSearchEngineNew(args[1], args[2], args[3])
    /\ inner = New(None, None)
    /\ nOps = 0
    /\ last = [op |-> "new"]
    /\ SingleThreaded
    /\ engines = EmptyMap
    /\ issued = <<>>

SetRrfKAct ==
    /\ nOps < MaxOps
    /\ \E k \in RrfKArgs :
        /\ hybrid' = SetRrfK(hybrid, k)
        /\ last' = [op |-> "set_rrf_k", k |-> k]
    /\ nOps' = nOps + 1
    /\ UNCHANGED <<inner, threadVars, cm, engines, issued>>

SetWeightsAct ==
    /\ nOps < MaxOps
    /\ \E w \in SetWeightsArgs :
        /\ hybrid' = SetWeights(hybrid, w[1], w[2], w[3])
        /\ last' = [op |-> "set_weights", bm25 |-> w[1], vector |-> w[2], tag_boost |-> w[3]]
    /\ nOps' = nOps + 1
    /\ UNCHANGED <<inner, threadVars, cm, engines, issued>>

\* fuse_results changes nothing: it starts from the states that new or a
\* setter left
FuseResultsAct ==
    /\ last.op # "fuse_results"
    /\ \E b \in IdLists, v \in IdLists, tag_boost_scores \in TagBoostScoreArgs,
          limit \in LimitArgs :
        \E ord \in FuseOrders(hybrid, Bm25Results(b), VectorResults(v), tag_boost_scores) :
            last' = [op |-> "fuse_results",
                     bm25_results |-> Bm25Results(b),
                     vector_results |-> VectorResults(v),
                     tag_boost_scores |-> tag_boost_scores,
                     limit |-> limit,
                     ret |-> FuseResults(hybrid, Bm25Results(b), VectorResults(v),
                                         tag_boost_scores, limit, ord)]
    /\ UNCHANGED <<inner, nOps, threadVars, cm, waveVars>>

NextFuse ==
    \/ SetRrfKAct
    \/ SetWeightsAct
    \/ FuseResultsAct

SpecFuse == InitFuse /\ [][NextFuse]_vars

\* ------------------------------------- HybridSearchEngine: claims

\* the 0-indexed ranks at which the stream lists the id
RanksOf(stream, id) == {i - 1 : i \in {j \in DOMAIN stream : stream[j].id = id}}

\* weight / (k + rank + 1) for the one rank of the set, 0 for no rank
Contribution(weight, k, ranks) ==
    IF ranks = {} THEN 0
    ELSE FDiv(FMul(RrfScale, weight),
              FAdd(k, ((CHOOSE r \in ranks : TRUE) + 1) * Scale))

\* the final score the formula of C16 gives the id
ExpectedFinalScore(self, in, id) ==
    FMul(FAdd(Contribution(self.bm25_weight, self.rrf_k, RanksOf(in.bm25_results, id)),
              Contribution(self.vector_weight, self.rrf_k, RanksOf(in.vector_results, id))),
         FAdd(Scale, FMul(self.tag_boost_weight,
                          MapGet(UnwrapOr(in.tag_boost_scores, EmptyMap), id, 0))))

\* two scores that differ by rounding only
NearScore(a, b) == Abs(a - b) <= Scale \div 100

\* the ids of a result list
IdsOf(results) == [i \in DOMAIN results |-> results[i].id]

\* the inputs of the two examples of C16: the default engine, no boost
IsExample(in, b, v) ==
    /\ hybrid = HybridSearchEngineNew(None, None, None)
    /\ IdsOf(in.bm25_results) = b
    /\ IdsOf(in.vector_results) = v
    /\ in.tag_boost_scores = None
    /\ in.limit = None

\* the final_score of the id in a result list
ScoreOf(results, id) ==
    results[CHOOSE n \in DOMAIN results : results[n].id = id].final_score

\* 0.5 / n, at RrfScale
HalfOver(n) == FDiv(FMul(RrfScale, Scale \div 2), n * Scale)

\* the general part of C16: an id listed once at rank rb of the lexical
\* stream and/or once at rank rv of the vector stream gets final_score =
\* (bm25_weight / (k + rb + 1) + vector_weight / (k + rv + 1))
\* * (1 + tag_boost_weight * boost), a missing stream and a missing boost
\* counting 0
RrfFormula ==
    \A n \in DOMAIN last.ret :
        (/\ Cardinality(RanksOf(last.bm25_results, last.ret[n].id)) <= 1
         /\ Cardinality(RanksOf(last.vector_results, last.ret[n].id)) <= 1)
        => NearScore(last.ret[n].final_score,
                     ExpectedFinalScore(hybrid, last, last.ret[n].id))

\* the first example of C16: B = [x, y], V = [] gives x = 0.5/61 and
\* y = 0.5/62, in the order [x, y]
FirstExample ==
    IsExample(last, <<"x", "y">>, <<>>) =>
        /\ IdsOf(last.ret) = <<"x", "y">>
        /\ NearScore(ScoreOf(last.ret, "x"), HalfOver(61))
        /\ NearScore(ScoreOf(last.ret, "y"), HalfOver(62))

\* C16, amended: the formula of RrfFormula holds; with the default engine
\* and no boosts B = [x, y], V = [] gives x = 0.5/61, y = 0.5/62 in the
\* order [x, y], and B = [x, y], V = [y] gives y = 0.5/62 + 0.5/61 in the
\* order [y, x]
C16_RrfFormula ==
    (last.op = "fuse_results") =>
        /\ RrfFormula
        /\ FirstExample
        /\ IsExample(last, <<"x", "y">>, <<"y">>) =>
              /\ IdsOf(last.ret) = <<"y", "x">>
              /\ NearScore(ScoreOf(last.ret, "y"), FAdd(HalfOver(62), HalfOver(61)))

\* C16 as stated: the same, but with y = 0.5/61 + 0.5/61 in the second
\* example
C16_AsStated ==
    (last.op = "fuse_results") =>
        /\ RrfFormula
        /\ FirstExample
        /\ IsExample(last, <<"x", "y">>, <<"y">>) =>
              /\ IdsOf(last.ret) = <<"y", "x">>
              /\ NearScore(ScoreOf(last.ret, "y"), FAdd(HalfOver(61), HalfOver(61)))

\* the second example of C16 was run
C16_Witness ==
    /\ last.op = "fuse_results"
    /\ IsExample(last, <<"x", "y">>, <<"y">>)
    /\ IdsOf(last.ret) = <<"y", "x">>
    /\ last.ret[1].source = "both"
    /\ last.ret[1].final_score > last.ret[2].final_score

\* the ids of both streams in the order of their first insertion into
\* scores: lexical stream first, then vector stream, each in rank order
InsertionOrder(in) == Dedup(IdsOf(in.bm25_results) \o IdsOf(in.vector_results))

\* C17: the list fuse_results returns is determined by its inputs: every
\* run on the same inputs returns the same ids in the same order, and ids
\* with the same final_score are in insertion order
C17_FuseDeterministic ==
    (last.op = "fuse_results") =>
        /\ \A ord \in Perms(FuseIds) :
              IdsOf(FuseResults(hybrid, last.bm25_results, last.vector_results,
                                last.tag_boost_scores, last.limit, ord))
              = IdsOf(last.ret)
        /\ \A m \in DOMAIN last.ret, n \in DOMAIN last.ret :
              (m < n /\ last.ret[m].final_score = last.ret[n].final_score) =>
                 \E i \in DOMAIN InsertionOrder(last), j \in DOMAIN InsertionOrder(last) :
                    /\ i < j
                    /\ InsertionOrder(last)[i] = last.ret[m].id
                    /\ InsertionOrder(last)[j] = last.ret[n].id

\* the positions at which the stream lists the id
PositionsOf(stream, id) == {j \in DOMAIN stream : stream[j].id = id}
\* the first and the last of a set of positions that is not empty
FirstOf(positions) == CHOOSE p \in positions : \A q \in positions : p <= q
LastOf(positions) == CHOOSE p \in positions : \A q \in positions : q <= p

\* weight / (k + rank + 1) for the rank of the last position, 0 for none
LastContribution(weight, k, positions) ==
    IF positions = {} THEN 0
    ELSE FDiv(FMul(RrfScale, weight), FAdd(k, LastOf(positions) * Scale))

\* the item that introduced the id: the first that lists it in the lexical
\* stream, or else the first in the vector stream
Introducer(in, id) ==
    IF PositionsOf(in.bm25_results, id) # {}
    THEN in.bm25_results[FirstOf(PositionsOf(in.bm25_results, id))]
    ELSE in.vector_results[FirstOf(PositionsOf(in.vector_results, id))]

\* what the result r owes to the stream: the rank and the score of the last
\* position at which the stream lists r.id, nothing when it does not list it
FromLastOccurrence(stream, rank, score, id) ==
    IF PositionsOf(stream, id) = {} THEN rank = None /\ score = 0
    ELSE /\ rank = Some(LastOf(PositionsOf(stream, id)) - 1)
         /\ score = stream[LastOf(PositionsOf(stream, id))].score

\* the source label for an id by the streams that list it
SourceLabel(in, id) ==
    IF PositionsOf(in.bm25_results, id) # {} /\ PositionsOf(in.vector_results, id) # {}
    THEN "both"
    ELSE IF PositionsOf(in.bm25_results, id) # {} THEN "bm25" ELSE "vector"

\* the number of distinct ids of the two streams, and the limit in force
DistinctIds(in) == Cardinality(Range(IdsOf(in.bm25_results)) \cup Range(IdsOf(in.vector_results)))
LimitOf(in) == UnwrapOr(in.limit, 20)

\* C30: fuse_results returns each id once at most, and min(limit, number of
\* distinct ids of the two streams) items; of an id a stream lists more than
\* once, the stream's rank, score and contribution are those of the last
\* occurrence alone; content and metadata are those of the first item that
\* introduced the id; source is "both" exactly for an id of both streams,
\* else "bm25" or "vector"
C30_FuseOncePerId ==
    (last.op = "fuse_results") =>
        /\ \A m \in DOMAIN last.ret, n \in DOMAIN last.ret :
              (m # n) => last.ret[m].id # last.ret[n].id
        /\ Len(last.ret) = IF LimitOf(last) < DistinctIds(last) THEN LimitOf(last)
                           ELSE DistinctIds(last)
        /\ \A m \in DOMAIN last.ret :
              /\ FromLastOccurrence(last.bm25_results, last.ret[m].bm25_rank,
                                    last.ret[m].bm25_score, last.ret[m].id)
              /\ FromLastOccurrence(last.vector_results, last.ret[m].vector_rank,
                                    last.ret[m].vector_score, last.ret[m].id)
              /\ NearScore(last.ret[m].final_score,
                           FMul(FAdd(LastContribution(hybrid.bm25_weight, hybrid.rrf_k,
                                                      PositionsOf(last.bm25_results,
                                                                  last.ret[m].id)),
                                     LastContribution(hybrid.vector_weight, hybrid.rrf_k,
                                                      PositionsOf(last.vector_results,
                                                                  last.ret[m].id))),
                                FAdd(Scale, FMul(hybrid.tag_boost_weight,
                                                 last.ret[m].tag_boost_score))))
              /\ last.ret[m].content = Introducer(last, last.ret[m].id).content
              /\ last.ret[m].metadata = Introducer(last, last.ret[m].id).metadata
              /\ last.ret[m].source = SourceLabel(last, last.ret[m].id)

\* the lexical stream lists x twice and the vector stream lists x and y: x
\* comes back once, from both, with the rank of its second occurrence
C30_Witness ==
    /\ last.op = "fuse_results"
    /\ IdsOf(last.bm25_results) = <<"x", "x">>
    /\ IdsOf(last.vector_results) = <<"x", "y">>
    /\ last.limit = None
    /\ Len(last.ret) = 2
    /\ \E m \in DOMAIN last.ret :
          /\ last.ret[m].id = "x"
          /\ last.ret[m].bm25_rank = Some(1)
          /\ last.ret[m].source = "both"
          /\ last.ret[m].content = <<"from bm25", 1>>

\* ------------------------------------------------ tag expansion

\* one insertion of a stable sort by weight, descending
RECURSIVE InsertByWeight(_, _)
InsertByWeight(sorted, r) ==
    IF Len(sorted) = 0 THEN <<r>>
    ELSE IF FLt(sorted[Len(sorted)].weight, r.weight)
         THEN Append(InsertByWeight(SubSeq(sorted, 1, Len(sorted) - 1), r),
                     sorted[Len(sorted)])
         ELSE Append(sorted, r)

\* sort_by(|a, b| b.weight.partial_cmp(&a.weight).unwrap_or(Equal)): a stable
\* sort; the weights sorted in the model are no NaN
RECURSIVE SortByWeight(_)
SortByWeight(list) ==
    IF Len(list) = 0 THEN <<>>
    ELSE InsertByWeight(SortByWeight(SubSeq(list, 1, Len(list) - 1)), list[Len(list)])

\* get_associations: the closure of filter_map lets the entry of other_tag
\* through
AssociationKept(in, tag, other_tag) ==
    /\ ~FLt(in.cooccurrence[tag][other_tag], in.min_pmi_threshold)
    /\ ~FEq(MapGet(in.frequencies, tag, 0), 0)
    /\ ~FEq(MapGet(in.frequencies, other_tag, 0), 0)
    /\ ~FEq(in.total_count, 0)

\* get_associations: the TagAssociation of other_tag
TagAssociation(in, tag, other_tag) ==
    [tag |-> other_tag,
     pmi |-> FLn(FDiv(FDiv(in.cooccurrence[tag][other_tag], in.total_count),
                      FMul(FDiv(MapGet(in.frequencies, tag, 0), in.total_count),
                           FDiv(MapGet(in.frequencies, other_tag, 0), in.total_count)))),
     cooccurrence |-> in.cooccurrence[tag][other_tag],
     frequency |-> MapGet(in.frequencies, other_tag, 0)]

\* get_associations: coocs.iter().filter_map(..).collect(), the keys of coocs
\* in the order keys
Associations(in, tag, keys) ==
    [i \in DOMAIN SelectSeq(keys, LAMBDA t : AssociationKept(in, tag, t)) |->
        TagAssociation(in, tag, SelectSeq(keys, LAMBDA t : AssociationKept(in, tag, t))[i])]

\* one insertion of a stable sort by pmi, descending
RECURSIVE InsertByPmi(_, _)
InsertByPmi(sorted, r) ==
    IF Len(sorted) = 0 THEN <<r>>
    ELSE IF FLt(sorted[Len(sorted)].pmi, r.pmi)
         THEN Append(InsertByPmi(SubSeq(sorted, 1, Len(sorted) - 1), r),
                     sorted[Len(sorted)])
         ELSE Append(sorted, r)

\* sort_by(|a, b| b.pmi.partial_cmp(&a.pmi).unwrap_or(Equal)): a stable sort;
\* the values sorted in the model are no NaN
RECURSIVE SortByPmi(_)
SortByPmi(list) ==
    IF Len(list) = 0 THEN <<>>
    ELSE InsertByPmi(SortByPmi(SubSeq(list, 1, Len(list) - 1)), list[Len(list)])

\* TagCooccurrenceMatrix::get_associations; ord is the order in which the
\* HashMap coocs yields its keys
GetAssociations(in, tag, top_k, ord) ==
    IF ~Has(in.cooccurrence, tag) THEN <<>>
    ELSE Truncate(SortByPmi(Associations(in, tag, IterOrder(in.cooccurrence[tag], ord))),
                  UnwrapOr(top_k, 10))

\* expand_query: the weight of other_tag, reached from tag
ExpansionWeight(in, tag, other_tag, factor) ==
    FMul(FExp(FDiv(in.cooccurrence[tag][other_tag],
                   FSqrt(FMul(MapGet(in.frequencies, tag, Scale),
                              MapGet(in.frequencies, other_tag, Scale))))),
         factor)

\* expand_query: the body of the second loop, for one tag
ExpandFrom(in, expanded, tag, factor) ==
    IF ~Has(in.cooccurrence, tag) THEN expanded
    ELSE [t \in DOMAIN expanded \cup DOMAIN in.cooccurrence[tag] |->
             IF t \in DOMAIN expanded THEN expanded[t]
             ELSE ExpansionWeight(in, tag, t, factor)]

\* expand_query: the second loop from position i of tags on
RECURSIVE ExpandQueryLoop(_, _, _, _, _)
ExpandQueryLoop(in, expanded, tags, i, factor) ==
    IF i > Len(tags) THEN expanded
    ELSE ExpandQueryLoop(in, ExpandFrom(in, expanded, tags[i], factor), tags, i + 1, factor)

\* the entries of a HashMap<String, f64> in the order keys
Entries(m, keys) == [i \in DOMAIN keys |-> [tag |-> keys[i], weight |-> m[keys[i]]]]

\* the tags of a list of entries
TagsOf(list) == [i \in DOMAIN list |-> list[i].tag]

\* TagCooccurrenceMatrix::expand_query; ord is the order in which the HashMap
\* expanded yields its keys
ExpandQuery(in, tags, expansion_factor, ord) ==
    TagsOf(SortByWeight(
        Entries(ExpandQueryLoop(in, [t \in Range(tags) |-> Scale], tags, 1,
                                UnwrapOr(expansion_factor, Scale \div 2)),
                IterOrder(ExpandQueryLoop(in, [t \in Range(tags) |-> Scale], tags, 1,
                                          UnwrapOr(expansion_factor, Scale \div 2)),
                          ord))))

\* (x as u32) of a value that is no infinity: NaN and negatives give 0, the
\* fraction is cut
AsU32(x) == IF IsNaN(x) \/ x < 0 THEN 0 ELSE x \div Scale

\* get_related_tags: the TagCooccurrence of tag and the tag at index i
Related(self, tag, idx, i) ==
    [tag1 |-> tag, tag2 |-> self.tags[i + 1],
     weight |-> MapGet(self.weights, <<idx, i>>, 0),
     count |-> AsU32(FMul(MapGet(self.weights, <<idx, i>>, 0), 100 * Scale))]

\* get_related_tags: the loop over tags, from index i on
RECURSIVE RelatedLoop(_, _, _, _, _)
RelatedLoop(self, tag, idx, i, threshold) ==
    IF i >= Len(self.tags) THEN <<>>
    ELSE IF i # idx /\ FLe(threshold, MapGet(self.weights, <<idx, i>>, 0))
         THEN <<Related(self, tag, idx, i)>> \o RelatedLoop(self, tag, idx, i + 1, threshold)
         ELSE RelatedLoop(self, tag, idx, i + 1, threshold)

\* CooccurrenceMatrix::get_related_tags
GetRelatedTags(self, tag, top_k, min_weight) ==
    IF ~Has(self.tag_index, tag) THEN <<>>
    ELSE Truncate(SortByWeight(RelatedLoop(self, tag, self.tag_index[tag], 0,
                                           UnwrapOr(min_weight, Scale \div 10))),
                  UnwrapOr(top_k, 10))

\* expand_tags: the state of the search, with the seeds in it
ExpandStart(seeds) ==
    [expanded |-> [t \in Range(seeds) |-> Scale], frontier |-> seeds, visited |-> Range(seeds)]

\* the body of the loop over related without the comparison with the
\* weight the tag has
RelateUnconditionally(st, rel, new_weight) ==
    [expanded |-> MapPut(st.expanded, rel.tag2, new_weight),
     frontier |-> IF rel.tag2 \in st.visited THEN st.frontier
                  ELSE Append(st.frontier, rel.tag2),
     visited |-> st.visited \cup {rel.tag2}]

\* expand_tags: the body of the loop over related, for one rel
Relate(st, rel, new_weight) ==
    IF ~FLt(MapGet(st.expanded, rel.tag2, 0), new_weight) THEN st
    ELSE [expanded |-> MapPut(st.expanded, rel.tag2, new_weight),
          frontier |-> IF rel.tag2 \in st.visited THEN st.frontier
                       ELSE Append(st.frontier, rel.tag2),
          visited |-> st.visited \cup {rel.tag2}]

\* expand_tags: the loop over related from position i on
RECURSIVE RelateLoop(_, _, _, _, _)
RelateLoop(st, related, i, current_weight, decay_mult) ==
    IF i > Len(related) THEN st
    ELSE RelateLoop(Relate(st, related[i],
                           FMul(FMul(current_weight, related[i].weight), decay_mult)),
                    related, i + 1, current_weight, decay_mult)

\* expand_tags: one pop_front and what follows it
PopFront(self, st, decay_mult) ==
    RelateLoop([st EXCEPT !.frontier = Tail(st.frontier)],
               GetRelatedTags(self, Head(st.frontier), Some(5), Some(Scale \div 5)),
               1, MapGet(st.expanded, Head(st.frontier), 0), decay_mult)

\* expand_tags: the loop over the frontier_size tags of one depth
RECURSIVE FrontierLoop(_, _, _, _)
FrontierLoop(self, st, n, decay_mult) ==
    IF n = 0 \/ Len(st.frontier) = 0 THEN st
    ELSE FrontierLoop(self, PopFront(self, st, decay_mult), n - 1, decay_mult)

\* expand_tags: the loop over the depths from d on
RECURSIVE DepthLoop(_, _, _, _, _)
DepthLoop(self, st, d, max_depth, decay) ==
    IF d >= max_depth THEN st
    ELSE DepthLoop(self,
                   FrontierLoop(self, st, Len(st.frontier), FPow(decay, (d + 1) * Scale)),
                   d + 1, max_depth, decay)

\* expand_tags: the result array before the sort, the entries of expanded
\* in the order keys
Expansions(expanded, keys) ==
    [i \in DOMAIN keys |->
        [tag1 |-> "", tag2 |-> keys[i], weight |-> expanded[keys[i]],
         count |-> AsU32(FMul(expanded[keys[i]], 100 * Scale))]]

\* expand_tags from the filled map expanded on
ExpandedTags(expanded, ord) == SortByWeight(Expansions(expanded, IterOrder(expanded, ord)))

\* CooccurrenceMatrix::expand_tags; ord is the order in which the HashMap
\* expanded yields its keys
ExpandTags(self, seeds, depth, decay_factor, ord) ==
    ExpandedTags(DepthLoop(self, ExpandStart(seeds), 0, UnwrapOr(depth, 2),
                           UnwrapOr(decay_factor, (7 * Scale) \div 10)).expanded,
                 ord)

\* ------------------------------------------------------- WaveRAGEngine
\* The duration fields of the results are readings of a clock and are left
\* out of the model.

\* WaveRAGConfig::default
DefaultWaveRAGConfig ==
    [lens_max_tags |-> Some(10),
     expansion_depth |-> Some(2),
     expansion_threshold |-> Some((3 * Scale) \div 10),
     expansion_max_tags |-> Some(20),
     focus_top_k |-> Some(10),
     focus_score_threshold |-> Some(Scale \div 2),
     tag_memo_weight |-> Some((65 * Scale) \div 100),
     bm25_weight |-> Some(Scale \div 2),
     vector_weight |-> Some(Scale \div 2)]

\* WaveRAGEngine::new from the configuration cfg on
WaveRAGEngineOf(cfg) ==
    [config |-> cfg,
     tag_matrix |-> New(None, None),
     cooccurrence |-> NewCooccurrenceMatrix,
     hybrid_search |-> HybridSearchEngineNew(cfg.bm25_weight, cfg.vector_weight,
                                             cfg.tag_memo_weight),
     trace_counter |-> 0]

\* WaveRAGEngine::new
WaveRAGEngineNew(config) == WaveRAGEngineOf(UnwrapOr(config, DefaultWaveRAGConfig))

\* trace_counter.fetch_add(1, SeqCst): the value it leaves; the value it
\* returns is the one it found
FetchAddNothing(counter) == counter
FetchAdd(counter) == counter + 1

\* format!("wave-{}-{}", timestamp, counter): two decimal numbers between
\* dashes, so that different pairs give different texts
TraceId(timestamp, counter) == <<"wave", timestamp, counter>>

\* the configuration the three phases read: self.config; search binds the
\* override to _config and reads it nowhere
OverridingConfig(self, config_override) == UnwrapOr(config_override, self.config)
PhaseConfig(self, config_override) == self.config

\* execute_lens_phase
ExecuteLensPhase(self, config, query_tags, ord) ==
    [tags |-> query_tags,
     expanded_tags |-> Truncate(ExpandQuery(self.tag_matrix, query_tags,
                                            Some(Scale \div 2), ord),
                                UnwrapOr(config.lens_max_tags, 10))]

\* execute_expansion_phase: filter, map and take on the expanded tags
FilterExpanded(expanded, threshold, max_tags) ==
    Truncate([i \in DOMAIN SelectSeq(expanded, LAMBDA t : FLe(threshold, t.weight)) |->
                 SelectSeq(expanded, LAMBDA t : FLe(threshold, t.weight))[i].tag2],
             max_tags)

\* execute_expansion_phase
ExecuteExpansionPhase(self, config, seed_tags, ord) ==
    [all_tags |-> FilterExpanded(ExpandTags(self.cooccurrence, seed_tags,
                                            Some(UnwrapOr(config.expansion_depth, 2)),
                                            Some((7 * Scale) \div 10), ord),
                                 UnwrapOr(config.expansion_threshold, (3 * Scale) \div 10),
                                 UnwrapOr(config.expansion_max_tags, 20)),
     depth_reached |-> UnwrapOr(config.expansion_depth, 2)]

\* execute_focus_phase: the tags of an item's metadata, when the metadata is
\* JSON with an array under "tags"
ContentTagsOf(metadata) ==
    IF metadata.some /\ metadata.v.t # "invalid" /\ JsonIndex(metadata.v, "tags").t = "arr"
    THEN Some(TagsOfJson(JsonIndex(metadata.v, "tags")))
    ELSE None

\* execute_focus_phase: the boost score of one item
ItemBoost(self, query_tags, item, ord) ==
    ComputeTagBoost(self.tag_matrix,
                    [query_tags |-> query_tags,
                     content_tags |-> ContentTagsOf(item.metadata).v,
                     original_score |-> Some(item.score),
                     alpha_min |-> None, alpha_max |-> None, beta_base |-> None],
                    ord).tag_match_score

\* execute_focus_phase: the loop over all_results from position i on
RECURSIVE BoostLoop(_, _, _, _, _, _)
BoostLoop(self, query_tags, all_results, i, tag_boost_scores, ord) ==
    IF i > Len(all_results) THEN tag_boost_scores
    ELSE BoostLoop(self, query_tags, all_results, i + 1,
                   IF ContentTagsOf(all_results[i].metadata).some
                   THEN MapPut(tag_boost_scores, all_results[i].id,
                               ItemBoost(self, query_tags, all_results[i], ord))
                   ELSE tag_boost_scores,
                   ord)

\* execute_focus_phase: one fused result as a WaveRAGResultItem
WaveRAGResultItem(r, tag_boost_scores) ==
    [id |-> r.id, content |-> r.content, final_score |-> r.final_score,
     original_score |-> FMax(r.vector_score, r.bm25_score),
     tag_boost_score |-> MapGet(tag_boost_scores, r.id, 0),
     matched_tags |-> <<>>, metadata |-> r.metadata, source |-> r.source]

\* execute_focus_phase: map on the fused results, without the filter
WaveResultsUnfiltered(fused_results, score_threshold, tag_boost_scores) ==
    [i \in DOMAIN fused_results |-> WaveRAGResultItem(fused_results[i], tag_boost_scores)]

\* execute_focus_phase: filter and map on the fused results; final_score is
\* at RrfScale
WaveResults(fused_results, score_threshold, tag_boost_scores) ==
    [i \in DOMAIN SelectSeq(fused_results,
                            LAMBDA r : FLe(FMul(RrfScale, score_threshold), r.final_score)) |->
        WaveRAGResultItem(SelectSeq(fused_results,
                                    LAMBDA r : FLe(FMul(RrfScale, score_threshold),
                                                   r.final_score))[i],
                          tag_boost_scores)]

\* execute_focus_phase from the boost scores on
FocusWith(self, config, bm25_results, vector_results, tag_boost_scores, ord) ==
    [results |-> WaveResults(FuseResults(self.hybrid_search, bm25_results, vector_results,
                                         Some(tag_boost_scores),
                                         Some(UnwrapOr(config.focus_top_k, 10)), ord.ids),
                             UnwrapOr(config.focus_score_threshold, Scale \div 2),
                             tag_boost_scores),
     tag_boost_applied |-> DOMAIN tag_boost_scores # {}]

\* execute_focus_phase: ord.tags and ord.ids are the orders in which the
\* HashMaps over tags and over ids yield their keys
ExecuteFocusPhase(self, config, query_tags, bm25_results, vector_results, ord) ==
    FocusWith(self, config, bm25_results, vector_results,
              BoostLoop(self, query_tags, bm25_results \o vector_results, 1, EmptyMap,
                        ord.tags),
              ord)

\* search: the WaveRAGResult of the three phase results
WaveRAGResult(lens_result, expansion_result, focus, query_tags, trace_id) ==
    [results |-> focus.results,
     lens_phase |-> lens_result,
     expansion_phase |-> expansion_result,
     focus_phase |-> [result_count |-> Len(focus.results),
                      tag_boost_applied |-> focus.tag_boost_applied],
     query_tags |-> query_tags,
     expansion_tags |-> <<>>,
     trace_id |-> trace_id]

\* search from the expansion phase result on
SearchFocus(self, config, in, lens_result, expansion_result, trace_id, ord) ==
    WaveRAGResult(lens_result, expansion_result,
                  ExecuteFocusPhase(self, config, expansion_result.all_tags,
                                    in.bm25_results, in.vector_results, ord),
                  in.query_tags, trace_id)

\* search from the lens phase result on
SearchExpansion(self, config, in, lens_result, trace_id, ord) ==
    SearchFocus(self, config, in, lens_result,
                ExecuteExpansionPhase(self, config, lens_result.expanded_tags, ord.tags),
                trace_id, ord)

\* search from the trace id on, the phases reading config
SearchPhases(self, config, in, trace_id, ord) ==
    SearchExpansion(self, config, in,
                    ExecuteLensPhase(self, config, in.query_tags, ord.tags),
                    trace_id, ord)

\* WaveRAGEngine::search: the WaveRAGResult, given the trace id that
\* generate_trace_id made; in holds query_tags, bm25_results, vector_results
\* and config_override
Search(self, in, trace_id, ord) ==
    SearchPhases(self, PhaseConfig(self, in.config_override), in, trace_id, ord)

\* WaveRAGEngine::update_config
UpdateConfig(self, config) ==
    [self EXCEPT !.config = config,
                 !.hybrid_search =
                     SetWeights(self.hybrid_search,
                                UnwrapOr(config.bm25_weight, Scale \div 2),
                                UnwrapOr(config.vector_weight, Scale \div 2),
                                UnwrapOr(config.tag_memo_weight, (65 * Scale) \div 100))]

\* WaveRAGEngine::update_tag_matrix
UpdateTagMatrix(self, tag1, tag2, weight) ==
    [self EXCEPT !.tag_matrix = Update(self.tag_matrix, tag1, tag2, weight)]

\* load_tag_matrix_from_json that installs an empty matrix when from_json
\* fails
LoadOrReset(self, json) ==
    IF FromJson(json).ok
    THEN [ok |-> TRUE, self |-> [self EXCEPT !.tag_matrix = FromJson(json).inner]]
    ELSE [ok |-> FALSE, self |-> [self EXCEPT !.tag_matrix = New(None, None)]]

\* WaveRAGEngine::load_tag_matrix_from_json: the engine it leaves and whether
\* it returned Ok; the ? returns before the assignment when from_json fails
LoadTagMatrixFromJson(self, json) ==
    IF FromJson(json).ok
    THEN [ok |-> TRUE, self |-> [self EXCEPT !.tag_matrix = FromJson(json).inner]]
    ELSE [ok |-> FALSE, self |-> self]

\* WaveRAGEngine::build_cooccurrence_from_documents
BuildCooccurrenceFromDocuments(self, documents) ==
    [self EXCEPT !.cooccurrence = BuildFromDocuments(self.cooccurrence, documents)]

\* ------------------------------------ WaveRAGEngine: inputs, actions

WaveTags == {"a", "b"}
\* the readings of the system clock, in milliseconds; every call may read
\* any of them, so that the clock may stand still or go back
Timestamps == {1000 * Scale, 1000 * Scale + 1}

\* the metadata of an item with these tags
TagsMetadata(tags) == Some(JObj([tags |-> JArr([i \in DOMAIN tags |-> JStr(tags[i])])]))
\* the streams of the lexical and of the vector search
WaveBm25Lists ==
    {<<>>,
     <<[id |-> "x", content |-> "from bm25", metadata |-> TagsMetadata(<<"a">>),
        score |-> 2 * Scale],
       [id |-> "y", content |-> "from bm25", metadata |-> None, score |-> Scale]>>}
WaveVectorLists ==
    {<<>>,
     <<[id |-> "y", content |-> "from vector", metadata |-> TagsMetadata(<<"b">>),
        score |-> (9 * Scale) \div 10]>>}
WaveQueryTagLists == {<<>>, <<"a">>, <<"b", "a">>}

\* the default configuration with every result let through
LooseConfig == [DefaultWaveRAGConfig EXCEPT !.focus_score_threshold = Some(0)]
\* a configuration that differs from the default one in every field
NarrowConfig ==
    [lens_max_tags |-> Some(1),
     expansion_depth |-> Some(1),
     expansion_threshold |-> Some((8 * Scale) \div 10),
     expansion_max_tags |-> Some(1),
     focus_top_k |-> Some(1),
     focus_score_threshold |-> Some(Scale \div 100),
     tag_memo_weight |-> None,
     bm25_weight |-> Some((7 * Scale) \div 10),
     vector_weight |-> Some((3 * Scale) \div 10)]
WaveNewArgs == {None, Some(LooseConfig), Some(NarrowConfig)}
UpdateConfigArgs == {NarrowConfig}
ConfigOverrides == {None, Some(NarrowConfig), Some(DefaultWaveRAGConfig)}
SearchInputs ==
    [query_tags : WaveQueryTagLists, bm25_results : WaveBm25Lists,
     vector_results : WaveVectorLists, config_override : ConfigOverrides]
WaveDocumentLists ==
    {<<[id |-> "d1", tags |-> <<"a", "b">>], [id |-> "d2", tags |-> <<>>]>>,
     <<[id |-> "d1", tags |-> <<"a", "b">>]>>}

\* a matrix to export: alpha 1.0, beta 0.5 and one update
ExportedMatrix == Update(New(Some(Scale), Some(Scale \div 2)), "a", "b", None)
\* texts to load: no JSON, the export of a matrix, and JSON that is no object
LoadTexts == {JInvalid, ToJson(ExportedMatrix), JNull}

\* the orders in which the HashMaps of one search may yield their keys
AllWaveOrders == [tags : Perms(WaveTags), ids : Perms(FuseIds)]
\* one order stands for all when the result is the same under every order
WaveOrders(self, in) ==
    IF \E ord \in AllWaveOrders :
          Search(self, in, <<>>, ord) # Search(self, in, <<>>, CHOOSE o \in AllWaveOrders : TRUE)
    THEN AllWaveOrders
    ELSE {CHOOSE o \in AllWaveOrders : TRUE}

\* one engine, made by WaveRAGEngine::new
InitWave ==
    /\ \E config \in WaveNewArgs : engines = [e \in {"e1"} |-> WaveRAGEngineNew(config)]
    /\ issued = <<>>
    /\ hybrid = HybridSearchEngineNew(None, None, None)
    /\ inner = New(None, None)
    /\ nOps = 0
    /\ last = [op |-> "new"]
    /\ SingleThreaded

UpdateTagMatrixAct ==
    /\ nOps < MaxOps
    /\ \E tag1 \in WaveTags, tag2 \in WaveTags :
        /\ engines' = [engines EXCEPT !["e1"] = UpdateTagMatrix(@, tag1, tag2, None)]
        /\ last' = [op |-> "update_tag_matrix", tag1 |-> tag1, tag2 |-> tag2]
    /\ nOps' = nOps + 1
    /\ UNCHANGED <<inner, threadVars, cm, hybrid, issued>>

BuildCooccurrenceFromDocumentsAct ==
    /\ nOps < MaxOps
    /\ \E documents \in WaveDocumentLists :
        /\ engines' = [engines EXCEPT !["e1"] = BuildCooccurrenceFromDocuments(@, documents)]
        /\ last' = [op |-> "build_cooccurrence_from_documents", documents |-> documents]
    /\ nOps' = nOps + 1
    /\ UNCHANGED <<inner, threadVars, cm, hybrid, issued>>

UpdateConfigAct ==
    /\ nOps < MaxOps
    /\ \E config \in UpdateConfigArgs :
        /\ engines' = [engines EXCEPT !["e1"] = UpdateConfig(@, config)]
        /\ last' = [op |-> "update_config", config |-> config]
    /\ nOps' = nOps + 1
    /\ UNCHANGED <<inner, threadVars, cm, hybrid, issued>>

LoadTagMatrixFromJsonAct ==
    /\ nOps < MaxOps
    /\ \E json \in LoadTexts :
        /\ engines' = [engines EXCEPT !["e1"] = LoadTagMatrixFromJson(@, json).self]
        /\ last' = [op |-> "load_tag_matrix_from_json", json |-> json,
                    ok |-> LoadTagMatrixFromJson(engines["e1"], json).ok]
    /\ nOps' = nOps + 1
    /\ UNCHANGED <<inner, threadVars, cm, hybrid, issued>>

\* search by one thread: generate_trace_id, then the three phases.  A search
\* changes the trace counter only, which no phase reads: it starts from the
\* states that new or another operation left
SearchAct ==
    /\ nOps < MaxOps
    /\ last.op # "search"
    /\ \E in \in SearchInputs :
        \E ord \in WaveOrders(engines["e1"], in), timestamp \in Timestamps :
            /\ engines' = [engines EXCEPT !["e1"].trace_counter = FetchAdd(@)]
            /\ last' = [op |-> "search", in |-> in, ord |-> ord,
                        ret |-> Search(engines["e1"], in,
                                       TraceId(timestamp, engines["e1"].trace_counter), ord)]
            /\ issued' = Append(issued,
                                [engine |-> "e1",
                                 counter |-> engines["e1"].trace_counter,
                                 trace_id |-> TraceId(timestamp, engines["e1"].trace_counter)])
    /\ nOps' = nOps + 1
    /\ UNCHANGED <<inner, threadVars, cm, hybrid>>

NextWave ==
    \/ UpdateTagMatrixAct
    \/ BuildCooccurrenceFromDocumentsAct
    \/ UpdateConfigAct
    \/ LoadTagMatrixFromJsonAct
    \/ SearchAct

SpecWave == InitWave /\ [][NextWave]_vars

\* ------------------------------------------- WaveRAGEngine: claims

\* the call with the same arguments but no override
WithoutOverride(in) == [in EXCEPT !.config_override = None]

WeightsOfConfig(config) ==
    [bm25_weight |-> UnwrapOr(config.bm25_weight, Scale \div 2),
     vector_weight |-> UnwrapOr(config.vector_weight, Scale \div 2),
     tag_boost_weight |-> UnwrapOr(config.tag_memo_weight, (65 * Scale) \div 100)]

\* the fusion weights of the engine
WeightsOf(self) ==
    [bm25_weight |-> self.hybrid_search.bm25_weight,
     vector_weight |-> self.hybrid_search.vector_weight,
     tag_boost_weight |-> self.hybrid_search.tag_boost_weight]

\* C21: the weights fusion uses in a search are those of the engine's
\* configuration, 0.65 standing for an unset tag_memo_weight and 0.5 for an
\* unset bm25_weight or vector_weight, whether new or update_config installed
\* the configuration: the search returns what it returns on the engine on
\* which update_config installed the same configuration
C21_FusionWeightsFromConfig ==
    (last.op = "search") =>
        /\ WeightsOf(engines["e1"]) = WeightsOfConfig(engines["e1"].config)
        /\ last.ret = Search(UpdateConfig(engines["e1"], engines["e1"].config),
                             last.in, last.ret.trace_id, last.ord)

\* focus_score_threshold and focus_top_k of the engine's configuration
FocusScoreThreshold(self) == UnwrapOr(self.config.focus_score_threshold, Scale \div 2)
FocusTopK(self) == UnwrapOr(self.config.focus_top_k, 10)

LensExpansion ==
    ExpandQuery(engines["e1"].tag_matrix, last.in.query_tags, Some(Scale \div 2),
                last.ord.tags)

\* C27: in the list expand_query returns every seed precedes every tag that
\* is no seed, so that a search with at most lens_max_tags distinct query
\* tags has every query tag in lens_phase.expanded_tags
C27_SeedsFirst ==
    (last.op = "search") =>
        /\ \A i \in DOMAIN LensExpansion, j \in DOMAIN LensExpansion :
              (/\ LensExpansion[i] \in Range(last.in.query_tags)
               /\ LensExpansion[j] \notin Range(last.in.query_tags)) => i < j
        /\ (Cardinality(Range(last.in.query_tags))
              <= UnwrapOr(engines["e1"].config.lens_max_tags, 10))
           => Range(last.in.query_tags) \subseteq Range(last.ret.lens_phase.expanded_tags)

\* the matrix a text describes: the exported one, or, for JSON that names
\* no field, the matrix of the defaults
DescribedMatrix(json) ==
    IF json = ToJson(ExportedMatrix) THEN ExportedMatrix ELSE New(None, None)

\* C29: load_tag_matrix_from_json of text that is no JSON returns an error
\* and leaves the engine, its TagMemo matrix included, as it was, so that
\* every later call answers as before; of JSON it returns Ok and replaces the
\* whole matrix by the one the JSON describes, leaving the rest of the engine
C29_FailedLoadChangesNothing ==
    [][(last'.op = "load_tag_matrix_from_json") =>
          IF last'.json = JInvalid
          THEN ~last'.ok /\ engines' = engines
          ELSE /\ last'.ok
               /\ engines' = [engines EXCEPT !["e1"].tag_matrix =
                                                 DescribedMatrix(last'.json)]]_vars

\* a load that failed on an engine whose matrix had been updated
C29_Witness ==
    /\ last.op = "load_tag_matrix_from_json"
    /\ ~last.ok
    /\ engines["e1"].tag_matrix.total_count = 2 * Scale
    /\ DOMAIN engines["e1"].tag_matrix.cooccurrence = {"a", "b"}

\* ------------------------------------ WaveRAGEngine: search by threads

\* search calls per behaviour
MaxSearches == 3

TraceInputs ==
    [query_tags : {<<"a">>}, bm25_results : {<<>>}, vector_results : WaveVectorLists \ {<<>>},
     config_override : {None}]
QuickConfigArgs == {None}

\* the thread is inside search on the engine of this name
SearchingOn(t, e) == frame[t].op = "search" /\ frame[t].engine = e

\* the engine the search of the thread runs on: an engine of the process, or
\* the one quick_waverag_search made for this call
EngineOf(t) ==
    IF frame[t].engine = "quick" THEN frame[t].local ELSE engines[frame[t].engine]

\* two engines, each made by WaveRAGEngine::new
InitTrace ==
    /\ engines = [e \in {"e1", "e2"} |-> WaveRAGEngineNew(None)]
    /\ issued = <<>>
    /\ hybrid = HybridSearchEngineNew(None, None, None)
    /\ inner = New(None, None)
    /\ nOps = 0
    /\ last = [op |-> "new"]
    /\ SingleThreaded

\* a thread calls search on an engine: the calls that returned before are
\* counted, and the calls on the same engine that are under way overlap it
SearchEnter(t) ==
    /\ pc[t] = "idle"
    /\ nOps < MaxSearches
    /\ \E e \in DOMAIN engines, in \in TraceInputs :
        frame' = [u \in Threads |->
                    IF u = t
                    THEN [op |-> "search", engine |-> e, in |-> in,
                          returned |-> Len(issued),
                          overlapped |-> \E v \in Threads \ {t} : SearchingOn(v, e)]
                    ELSE IF SearchingOn(u, e) THEN [frame[u] EXCEPT !.overlapped = TRUE]
                    ELSE frame[u]]
    /\ pc' = [pc EXCEPT ![t] = "fetch_add"]
    /\ nOps' = nOps + 1
    /\ UNCHANGED <<inner, last, lock, cm, hybrid, engines, issued>>

\* a thread calls quick_waverag_search, which makes an engine and calls
\* search on it with no override
QuickWaveragSearchEnter(t) ==
    /\ pc[t] = "idle"
    /\ nOps < MaxSearches
    /\ \E config \in QuickConfigArgs, in \in TraceInputs :
        frame' = [frame EXCEPT ![t] =
                    [op |-> "search", engine |-> "quick", local |-> WaveRAGEngineNew(config),
                     in |-> in, returned |-> Len(issued), overlapped |-> FALSE]]
    /\ pc' = [pc EXCEPT ![t] = "fetch_add"]
    /\ nOps' = nOps + 1
    /\ UNCHANGED <<inner, last, lock, cm, hybrid, engines, issued>>

\* generate_trace_id: trace_counter.fetch_add(1, SeqCst), one atomic step
TraceCounterFetchAdd(t) ==
    /\ pc[t] = "fetch_add"
    /\ IF frame[t].engine = "quick"
       THEN /\ frame' = [frame EXCEPT ![t] =
                           [@ EXCEPT !.local.trace_counter = FetchAdd(@)]
                           @@ [counter |-> frame[t].local.trace_counter]]
            /\ UNCHANGED engines
       ELSE /\ frame' = [frame EXCEPT ![t] =
                           @ @@ [counter |-> engines[frame[t].engine].trace_counter]]
            /\ engines' = [engines EXCEPT ![frame[t].engine].trace_counter = FetchAdd(@)]
    /\ pc' = [pc EXCEPT ![t] = "now"]
    /\ UNCHANGED <<inner, nOps, last, lock, cm, hybrid, issued>>

\* the rest of search, which shares nothing with other threads: the clock
\* reading and format! of generate_trace_id, the three phases, which read
\* the engine, and the return
SearchReturn(t) ==
    /\ pc[t] = "now"
    /\ \E timestamp \in Timestamps, ord \in WaveOrders(EngineOf(t), frame[t].in) :
        /\ last' = [op |-> "search", thread |-> t, in |-> frame[t].in, ord |-> ord,
                    ret |-> Search(EngineOf(t), frame[t].in,
                                   TraceId(timestamp, frame[t].counter), ord)]
        /\ issued' = Append(issued,
                            [engine |-> frame[t].engine, thread |-> t,
                             counter |-> frame[t].counter,
                             trace_id |-> TraceId(timestamp, frame[t].counter),
                             returned |-> frame[t].returned,
                             overlapped |-> frame[t].overlapped])
    /\ pc' = [pc EXCEPT ![t] = "idle"]
    /\ frame' = [frame EXCEPT ![t] = [op |-> "none"]]
    /\ UNCHANGED <<inner, nOps, lock, cm, hybrid, engines>>

NextTrace ==
    \/ \E t \in Threads : SearchEnter(t)
    \/ \E t \in Threads : QuickWaveragSearchEnter(t)
    \/ \E t \in Threads : TraceCounterFetchAdd(t)
    \/ \E t \in Threads : SearchReturn(t)

SpecTrace == InitTrace /\ [][NextTrace]_vars

\* the calls i and j ran on the same engine of the process
SameEngine(i, j) == issued[i].engine # "quick" /\ issued[i].engine = issued[j].engine

\* C18: on one engine no two search calls get the same counter, whatever the
\* interleaving; a call that began after another returned has the greater
\* counter, and a call that overlapped no other call on its engine has as
\* counter the number of calls made on the engine before it (0 for the first)
C18_CountersDiffer ==
    \A j \in DOMAIN issued :
        /\ \A i \in 1..(j - 1) :
              SameEngine(i, j) =>
                  /\ issued[i].counter # issued[j].counter
                  /\ (i <= issued[j].returned) => issued[i].counter < issued[j].counter
        /\ (issued[j].engine # "quick" /\ ~issued[j].overlapped) =>
              issued[j].counter = Cardinality({k \in 1..(j - 1) : SameEngine(k, j)})

\* two threads searched one engine at the same time, the one that counted
\* later returning first, and a third search followed them
C18_Witness ==
    /\ Len(issued) = 3
    /\ \A i \in 1..3 : issued[i].engine = "e1"
    /\ issued[1].thread # issued[2].thread
    /\ issued[1].overlapped /\ issued[2].overlapped
    /\ issued[1].counter > issued[2].counter
    /\ ~issued[3].overlapped
    /\ issued[3].counter = 2

\* C19: no two search calls of the process get the same trace id, whatever
\* the clock reads
C19_TraceIdsUnique ==
    \A i \in DOMAIN issued, j \in DOMAIN issued :
        i # j => issued[i].trace_id # issued[j].trace_id


\* ------------------------------------ get_associations: inputs, actions

TopKArgs == {None, Some(1)}

\* get_associations takes &self and leaves the matrix as it is: it starts
\* from the states that new or a mutator left
GetAssociationsAct ==
    /\ last.op # "get_associations"
    /\ \E tag \in Tags, top_k \in TopKArgs, ord \in IterOrders(inner) :
        last' = [op |-> "get_associations", tag |-> tag, top_k |-> top_k, ord |-> ord,
                 ret |-> GetAssociations(inner, tag, top_k, ord)]
    /\ UNCHANGED <<inner, nOps, threadVars, cm, waveVars>>

NextAssoc ==
    \/ UpdateDefaultAct
    \/ SetMinPmiThresholdAct
    \/ GetAssociationsAct

SpecAssoc == InitBoost /\ [][NextAssoc]_vars

\* ------------------------------------------- get_associations: claims

\* C23: get_associations returns at most top_k associations, in
\* non-increasing order of pmi and, where the pmi is the same, in ascending
\* order of the tag, so that every call on the same matrix returns the same
\* list
C23_AssociationsSorted ==
    (last.op = "get_associations") =>
        /\ Len(last.ret) <= UnwrapOr(last.top_k, 10)
        /\ \A i \in 1..(Len(last.ret) - 1) :
              \/ FLt(last.ret[i + 1].pmi, last.ret[i].pmi)
              \/ /\ last.ret[i + 1].pmi = last.ret[i].pmi
                 /\ TagRank(last.ret[i].tag) < TagRank(last.ret[i + 1].tag)
        /\ \A ord \in Perms(Tags) :
              GetAssociations(inner, last.tag, last.top_k, ord) = last.ret

\* C24: no association that get_associations returns has a pmi below
\* min_pmi_threshold, which set_min_pmi_threshold set and which is 0 at first
C24_HiddenBelowThreshold ==
    (last.op = "get_associations") =>
        \A i \in DOMAIN last.ret : FLe(inner.min_pmi_threshold, last.ret[i].pmi)


\* ----------------------------------------- expand_tags: inputs, actions

\* document lists: a chain a - b - c, a list whose one pair is always
\* together, and one with every pair of tags
ExpandDocumentLists ==
    {<<[id |-> "d1", tags |-> <<"a", "b">>], [id |-> "d2", tags |-> <<"b", "c">>],
       [id |-> "d3", tags |-> <<>>]>>,
     <<[id |-> "d1", tags |-> <<"a", "b">>]>>,
     <<[id |-> "d1", tags |-> <<"a", "b", "c">>], [id |-> "d2", tags |-> <<"a">>],
       [id |-> "d3", tags |-> <<"c">>]>>}
\* seeds, "z" being a tag no document has
SeedLists == {<<>>, <<"a">>, <<"z">>, <<"a", "c">>, <<"b", "a">>, <<"c", "z">>, <<"a", "a">>}
DepthArgs == {None, Some(0), Some(1)}
DecayArgs == {None, Some(Scale \div 2), Some(2 * Scale)}
AllExpandOrders == Perms(NpmiTags \cup {"z"})
\* one order stands for all when the result is the same under every order
ExpandOrders(self, seeds, depth, decay_factor) ==
    IF \E ord \in AllExpandOrders :
          ExpandTags(self, seeds, depth, decay_factor, ord)
          # ExpandTags(self, seeds, depth, decay_factor, CHOOSE o \in AllExpandOrders : TRUE)
    THEN AllExpandOrders
    ELSE {CHOOSE o \in AllExpandOrders : TRUE}

BuildChainAct ==
    /\ nOps < MaxOps
    /\ \E documents \in ExpandDocumentLists :
        /\ cm' = BuildFromDocuments(cm, documents)
        /\ last' = [op |-> "build_from_documents", documents |-> documents,
                    ret |-> BuildReturn(cm, documents)]
    /\ nOps' = nOps + 1
    /\ UNCHANGED <<inner, threadVars, waveVars>>

\* expand_tags takes &self and leaves the matrix as it is: it starts from
\* the states that new or a build left
ExpandTagsAct ==
    /\ last.op # "expand_tags"
    /\ \E seeds \in SeedLists, depth \in DepthArgs, decay_factor \in DecayArgs :
        \E ord \in ExpandOrders(cm, seeds, depth, decay_factor) :
            last' = [op |-> "expand_tags", seeds |-> seeds, depth |-> depth,
                     decay_factor |-> decay_factor, ord |-> ord,
                     ret |-> ExpandTags(cm, seeds, depth, decay_factor, ord)]
    /\ UNCHANGED <<inner, nOps, threadVars, cm, waveVars>>

NextExpand ==
    \/ BuildChainAct
    \/ ExpandTagsAct

SpecExpand == InitNpmi /\ [][NextExpand]_vars

\* ------------------------------------------------ expand_tags: claims

\* every weight of the matrix is in [0, 1]
WeightsInUnitInterval(self) ==
    \A k \in DOMAIN self.weights : FLe(0, self.weights[k]) /\ FLe(self.weights[k], Scale)

\* the tags one related-tag edge away from a tag of the set
Neighbours(self, tags) ==
    UNION {{r.tag2 : r \in Range(GetRelatedTags(self, t, Some(5), Some(Scale \div 5)))} :
             t \in tags}

\* the tags at most n edges away from a tag of the set
RECURSIVE WithinHops(_, _, _)
WithinHops(self, tags, n) ==
    IF n = 0 THEN tags
    ELSE WithinHops(self, tags, n - 1) \cup Neighbours(self, WithinHops(self, tags, n - 1))

\* the decay of the last expand_tags call, and whether it is in (0, 1)
DecayOf(call) == UnwrapOr(call.decay_factor, (7 * Scale) \div 10)
ProperDecay(call) == FLt(0, DecayOf(call)) /\ FLt(DecayOf(call), Scale)

\* C26: on a matrix with weights in [0, 1] and with 0 < decay < 1,
\* expand_tags returns, in non-increasing order of weight and each once, the
\* seeds and the tags at most depth related-tag edges away from a seed;
\* every seed has weight 1.0, every other tag at most decay; depth 0 returns
\* the seeds only
C26_ExpandTags ==
    (last.op = "expand_tags" /\ WeightsInUnitInterval(cm) /\ ProperDecay(last)) =>
        /\ \A i \in 1..(Len(last.ret) - 1) : FLe(last.ret[i + 1].weight, last.ret[i].weight)
        /\ {last.ret[i].tag2 : i \in DOMAIN last.ret}
           = WithinHops(cm, Range(last.seeds), UnwrapOr(last.depth, 2))
        /\ \A i \in DOMAIN last.ret, j \in DOMAIN last.ret :
              (i # j) => last.ret[i].tag2 # last.ret[j].tag2
        /\ \A i \in DOMAIN last.ret :
              IF last.ret[i].tag2 \in Range(last.seeds)
              THEN last.ret[i].weight = Scale
              ELSE FLe(last.ret[i].weight, DecayOf(last))
        /\ (last.depth = Some(0)) =>
              {last.ret[i].tag2 : i \in DOMAIN last.ret} = Range(last.seeds)

\* expand_tags from the seeds a and z, z unknown to the matrix, on the chain
\* a - b - c: b comes at one hop and c at two
C26_Witness ==
    /\ last.op = "expand_tags"
    /\ WeightsInUnitInterval(cm)
    /\ ProperDecay(last)
    /\ Range(last.seeds) = {"c", "z"}
    /\ last.depth = None
    /\ Len(last.ret) = 4
    /\ last.ret[3].tag2 = "b"
    /\ last.ret[4].tag2 = "a"
    /\ last.ret[4].weight > 0

====
